---- MODULE Spec2Model ----
(***************************************************************************)
(* Model of GenericNewtonRaphson, the Newton-Raphson power-flow solver, in *)
(* its three copies:                                                       *)
(*   "ported"    src/development/embedded_modules/newton_raphson.py        *)
(*               (src/docs/newton_raphson.py is the same code)             *)
(*   "original"  src/original code/NewtonRaphson.py                        *)
(*   "condensed" src/Python/NewtonRaphson.py (no reactive limits)          *)
(*                                                                         *)
(* Numbers are fixed point: a float f is the integer round(f * Unit), an   *)
(* angle in radians likewise.  A complex number is the pair <<re, im>>.    *)
(* Python's None is the empty tuple; an optional float v is <<v>>, an      *)
(* optional vector vec is <<vec>>.  Python index i is index i + 1 here, so *)
(* the slack bus (Python bus 0) is bus 1.                                  *)
(*                                                                         *)
(* np.linalg.inv(jacobian) applied to the mismatch is a library call whose *)
(* result is drawn from a bounded set of correction vectors, or fails with *)
(* LinAlgError; the all-zero admittance matrix gives the all-zero Jacobian *)
(* and always fails.                                                       *)
(***************************************************************************)
EXTENDS Integers, Sequences, FiniteSets, TLC

VARIABLES
    copy,        \* which copy of the solver runs
    args,        \* the caller's arguments, as passed (never written)
    Sgen,        \* the caller's Sgen list, mutated in place by the classifier
    pc,          \* "call", "setup", "loop", "final", "returned", "raised"
    exc,         \* the exception type a raised call ends with, or "none"
    V, Vmag, Vang, S,  \* solver locals (lines 63-73)
    Vregulating, mismatch, del_val,
    iteration, solved,
    passes,      \* loop bodies begun (line 137)
    exit,        \* which break left the loop: "none", "tolerance",
                 \* "max_iterations", "singular"
    past_solution, \* the caller's last solved result (V, with the Vmag and
                 \* Vang it was built from), None before the first one
    other,       \* the solver state of a second, suspended call whose steps
                 \* interleave with the running one; None for a single call
    jac,         \* calculate_Jacobian in progress: its loop indices, the
                 \* matrix and the number of writes to each cell; None
                 \* outside it
    sim_state,   \* the SimulationState instance of voltage_control.py; None
                 \* when no simulation is loaded
    five_bus     \* the module globals of 5bus_system.py; None when that
                 \* simulation is not loaded

\* the state outside the running call
extVars == <<other, jac, sim_state, five_bus>>

\* the state of the running call
solverVars == <<copy, args, Sgen, pc, exc, V, Vmag, Vang, S, Vregulating,
                mismatch, del_val, iteration, solved, passes, exit>>

vars == <<solverVars, past_solution, extVars>>

-----------------------------------------------------------------------------
(* Bounds of the model *)

\* a warm-started second call follows a first call that converged within
\* MaxFirstCall iterations
MaxFirstCall == 2

\* fixed-point resolution: 1.0 pu (and 1.0 rad) is Unit
Unit == 10

\* each component of a correction vector lies in -MaxDelta..MaxDelta, and the
\* corrections are drawn so that no angle or magnitude is moved further than
\* MaxDelta from the flat start (0 rad, 1.0 pu)
MaxDelta == 1

-----------------------------------------------------------------------------
(* Values *)

None == << >>
Some(x) == <<x>>
Val(o) == o[1]

Cx(re, im) == <<re, im>>
Re(z) == z[1]
Im(z) == z[2]
CZero == Cx(0, 0)

CSub(a, b) == Cx(Re(a) - Re(b), Im(a) - Im(b))

\* fixed-point product of two reals, rounded to nearest
FMul(a, b) == (2 * a * b + Unit) \div (2 * Unit)
CScale(k, a) == Cx(FMul(k, Re(a)), FMul(k, Im(a)))

AbsInt(x) == IF x < 0 THEN -x ELSE x
MaxInt(a, b) == IF a >= b THEN a ELSE b
MinInt(a, b) == IF a <= b THEN a ELSE b

\* nearest integer to the square root of n >= 0
ISqrt(n) == CHOOSE r \in 0..(n + 1) :
                /\ (2 * r - 1) * (2 * r - 1) <= 4 * n
                /\ 4 * n < (2 * r + 1) * (2 * r + 1)

\* abs() of a complex number
CAbs(z) == IF Im(z) = 0 THEN AbsInt(Re(z))
           ELSE ISqrt(Re(z) * Re(z) + Im(z) * Im(z))

\* pi in fixed point
PiU == (31416 * Unit + 5000) \div 10000

\* arctangent of the ratio n/d for 0 <= n <= d, d > 0:
\*   atan(t) ~ t * (pi/4 + 0.273 * (1 - t))
AtanRatio(n, d) ==
    LET t == (2 * n * 10000 + d) \div (2 * d)
        a == (t * (7854 + (273 * (10000 - t)) \div 1000)) \div 10000
    IN  (a * Unit + 5000) \div 10000

\* atan2 in the first quadrant (y >= 0, x >= 0, not both 0)
AtanQ1(y, x) == IF y <= x THEN AtanRatio(y, x)
                ELSE (PiU \div 2) - AtanRatio(x, y)

\* np.angle(z, deg=False): atan2(im, re); the angle of 0 is 0
CAngle(z) ==
    LET x == Re(z)
        y == Im(z)
    IN  IF y = 0 THEN (IF x >= 0 THEN 0 ELSE PiU)
        ELSE IF x >= 0 /\ y > 0 THEN AtanQ1(y, x)
        ELSE IF x < 0 /\ y > 0 THEN PiU - AtanQ1(y, -x)
        ELSE IF x >= 0 THEN -AtanQ1(-y, x)
        ELSE AtanQ1(-y, -x) - PiU

\* m.cos and m.sin by their Taylor polynomials
Cos(a) == Unit - (a * a) \div (2 * Unit)
               + (a * a * a * a) \div (24 * Unit * Unit * Unit)
Sin(a) == LET b == AbsInt(a)
              p == b - (b * b * b) \div (6 * Unit * Unit)
          IN  IF a < 0 THEN -p ELSE p

\* complex(real=mag * cos(ang), imag=mag * sin(ang))
Polar(mag, ang) == Cx(FMul(mag, Cos(ang)), FMul(mag, Sin(ang)))

-----------------------------------------------------------------------------
(* The caller's arguments *)

Copies == {"ported", "original", "condensed"}

\* Yext = 1.0 / complex(0.0, SYS_XE) with SYS_XE = 0.05
Yext == Cx(0, -(20 * Unit))
CNeg(z) == Cx(-Re(z), -Im(z))

\* the 2-bus admittance matrix of setup_ybus_matrix
SetupYbus == << <<Yext, CNeg(Yext)>>, <<CNeg(Yext), Yext>> >>
\* a network with no branch: every admittance is 0
ZeroYbus == << <<CZero, CZero>>, <<CZero, CZero>> >>
\* malformed matrices: row 1 too short, row 1 too long, row 0 too long
ShortRowYbus == << <<Yext, CNeg(Yext)>>, <<CNeg(Yext)>> >>
LongRowYbus == << <<Yext, CNeg(Yext)>>, <<CNeg(Yext), Yext, CZero>> >>
WideYbus == << <<Yext, CNeg(Yext), CZero>>, <<CNeg(Yext), Yext, CZero>> >>

\* a Qgen_cap callback: it returns the pair (qmin, qmax) or raises
CapConst(lo, hi) == [kind |-> "const", qmin |-> lo, qmax |-> hi]
CapRaises == [kind |-> "raises", qmin |-> 0, qmax |-> 0]

\* the first test case of AccuracyTester.create_test_cases
BaseArgs ==
    [ Ybus_matrix   |-> SetupYbus,
      Vreg_mag      |-> << Some(Unit), None >>,
      Sgen          |-> << None, Cx((8 * Unit) \div 10, 0) >>,
      Sload         |-> None,
      Sload_const_I |-> None,
      Sload_const_Y |-> None,
      Qgen_min      |-> None,
      Qgen_max      |-> None,
      Qgen_cap      |-> None,
      initial_V     |-> None ]

\* bus 1 declared voltage-regulated (a PV bus)
PVArgs == [BaseArgs EXCEPT !.Vreg_mag = << Some(Unit), Some(Unit) >>]

QLim == (3 * Unit) \div 10
FlatV == << Cx(Unit, 0), Cx(Unit, 0) >>
Zeros2 == << CZero, CZero >>

\* well-shaped calls
GoodArgs ==
    { BaseArgs,
      PVArgs,
      [BaseArgs EXCEPT !.Ybus_matrix = ZeroYbus],
      [BaseArgs EXCEPT !.Vreg_mag = << Some(Unit + 1), None >>],
      [PVArgs EXCEPT !.Vreg_mag = << Some(Unit + 1), Some(Unit) >>],
      [BaseArgs EXCEPT !.Sgen = << CZero, Cx((8 * Unit) \div 10, 0) >>],
      [BaseArgs EXCEPT !.Sgen = << CZero, None >>],
      [PVArgs EXCEPT !.Sgen = << CZero, None >>,
                     !.Qgen_min = Some(<< None, Some(QLim) >>)],
      [BaseArgs EXCEPT !.Sload = Some(Zeros2)],
      [BaseArgs EXCEPT !.Sload = Some(<< CZero, Cx(0, 2) >>),
                       !.Sload_const_I = Some(<< None, Cx(1, 0) >>),
                       !.Sload_const_Y = Some(<< None, Cx(0, 1) >>)],
      [BaseArgs EXCEPT !.initial_V = Some(FlatV)],
      [BaseArgs EXCEPT !.initial_V = Some(<< Cx(Unit, Unit \div 2), Cx(Unit, 0) >>)],
      [PVArgs EXCEPT !.initial_V = Some(<< Cx(Unit, 0), Cx(Unit - 1, 1) >>)],
      [PVArgs EXCEPT !.initial_V = Some(<< Cx(Unit, 0), Cx(Unit, Unit \div 2) >>)],
      [PVArgs EXCEPT !.Qgen_min = Some(<< None, Some(-QLim) >>),
                     !.Qgen_max = Some(<< None, Some(QLim) >>)],
      [PVArgs EXCEPT !.Qgen_min = Some(<< None, Some(1) >>),
                     !.Qgen_max = Some(<< None, Some(QLim) >>)],
      [PVArgs EXCEPT !.Qgen_cap = Some(<< None, Some(CapConst(-QLim, QLim)) >>)],
      [PVArgs EXCEPT !.Qgen_cap = Some(<< None, Some(CapConst(-1, 1)) >>)],
      [PVArgs EXCEPT !.Qgen_cap = Some(<< None, Some(CapRaises) >>)],
      [PVArgs EXCEPT !.Qgen_min = Some(<< None, Some(1) >>),
                     !.Qgen_max = Some(<< None, Some(QLim) >>),
                     !.Qgen_cap = Some(<< None, Some(CapRaises) >>)],
      [PVArgs EXCEPT !.Qgen_min = Some(<< None, Some(-QLim) >>),
                     !.Qgen_max = Some(<< None, Some(QLim) >>),
                     !.Qgen_cap = Some(<< None, Some(CapConst(-1, 1)) >>)],
      [PVArgs EXCEPT !.Qgen_min = Some(<< None, Some(1) >>),
                     !.Qgen_max = Some(<< None, Some(QLim) >>),
                     !.Qgen_cap = Some(<< None, Some(CapConst(0, 3 * Unit)) >>)] }

\* calls that break a precondition of the interface
BadArgs ==
    { [BaseArgs EXCEPT !.Ybus_matrix = WideYbus],
      [BaseArgs EXCEPT !.Ybus_matrix = ShortRowYbus],
      [BaseArgs EXCEPT !.Ybus_matrix = LongRowYbus],
      [BaseArgs EXCEPT !.Vreg_mag = << Some(Unit) >>],
      [BaseArgs EXCEPT !.Vreg_mag = << Some(Unit), None, None >>],
      [BaseArgs EXCEPT !.Sgen = << None >>],
      [BaseArgs EXCEPT !.Sgen = << None, CZero, CZero >>],
      [BaseArgs EXCEPT !.Sload = Some(<< CZero >>)],
      [BaseArgs EXCEPT !.Sload = Some(<< CZero, CZero, CZero >>)],
      [BaseArgs EXCEPT !.Sload_const_I = Some(<< None >>)],
      [BaseArgs EXCEPT !.Sload_const_Y = Some(<< None, None, None >>)],
      [PVArgs EXCEPT !.Qgen_min = Some(<< None >>)],
      [PVArgs EXCEPT !.Qgen_max = Some(<< None, Some(QLim), None >>)],
      [PVArgs EXCEPT !.Qgen_cap = Some(<< None >>)],
      [PVArgs EXCEPT !.Sgen = << None >>,
                     !.Qgen_min = Some(<< None, Some(QLim) >>)],
      [BaseArgs EXCEPT !.initial_V = Some(<< Cx(Unit, 0) >>)],
      [BaseArgs EXCEPT !.initial_V = Some(<< Cx(Unit, 0), Cx(Unit, 0), Cx(Unit, 0) >>)],
      [BaseArgs EXCEPT !.Vreg_mag = << None, None >>],
      [BaseArgs EXCEPT !.Vreg_mag = << None, None >>, !.initial_V = Some(FlatV)] }

ArgSet == GoodArgs \cup BadArgs

\* the condensed copy has no parameter for the voltage-dependent loads and
\* the reactive limits
OptionalParams(a) ==
    << a.Sload_const_I, a.Sload_const_Y, a.Qgen_max, a.Qgen_min, a.Qgen_cap >>

Accepts(c, a) ==
    c = "condensed" => \A k \in 1..5 : OptionalParams(a)[k] = None

-----------------------------------------------------------------------------
(* Validation and seeding *)

\* solver parameters; TOLERANCE is 1.0e-9 in fixed point
TOLERANCE == Unit \div 1000000000
MAX_ITERATIONS == 200

num_buses == Len(args.Ybus_matrix)
Buses == 1..num_buses
NonSlack == 2..num_buses

\* Sload = [complex() for x in range(num_buses)] when Sload is None
Sload == IF args.Sload = None THEN [x \in Buses |-> CZero] ELSE Val(args.Sload)

\* ShapeError without the length check of Qgen_cap
ShapeErrorNoCap(c, a, sg) ==
    LET n == Len(a.Ybus_matrix)
        sl == IF a.Sload = None THEN [x \in 1..n |-> CZero] ELSE Val(a.Sload)
    IN  \/ Len(a.Ybus_matrix[1]) # n
        \/ Len(a.Vreg_mag) # n
        \/ Len(sg) # n
        \/ Len(sl) # n
        \/ /\ c # "condensed"
           /\ \E k \in 1..4 : /\ OptionalParams(a)[k] # None
                              /\ Len(Val(OptionalParams(a)[k])) # n

\* the checks that raise ValueError
ShapeError(c, a, sg) ==
    LET n == Len(a.Ybus_matrix)
        sl == IF a.Sload = None THEN [x \in 1..n |-> CZero] ELSE Val(a.Sload)
    IN  \/ Len(a.Ybus_matrix[1]) # n
        \/ Len(a.Vreg_mag) # n
        \/ Len(sg) # n
        \/ Len(sl) # n
        \/ /\ c # "condensed"
           /\ \E k \in 1..5 : /\ OptionalParams(a)[k] # None
                              /\ Len(Val(OptionalParams(a)[k])) # n

Validate ==
    /\ pc = "call"
    /\ IF ShapeError(copy, args, Sgen)
       THEN pc' = "raised" /\ exc' = "ValueError"
       ELSE pc' = "setup" /\ exc' = exc
    /\ UNCHANGED <<copy, args, Sgen, V, Vmag, Vang, S, Vregulating, mismatch,
                   del_val, iteration, solved, passes, exit, past_solution, extVars>>

\* Vreg_declared[x]
Vreg_declared(a, x) == a.Vreg_mag[x] # None

\* Ybus_mag / Ybus_ang read Ybus_matrix[i][j] for every i, j < num_buses
YbusIndexError(a) ==
    \E i \in 1..Len(a.Ybus_matrix) : Len(a.Ybus_matrix[i]) < Len(a.Ybus_matrix)

\* the exception the initialisation of V raises, or "none"
SeedError(a) ==
    IF a.initial_V = None
    THEN (IF a.Vreg_mag[1] = None THEN "TypeError" ELSE "none")
    ELSE (IF Len(Val(a.initial_V)) < Len(a.Ybus_matrix) THEN "IndexError" ELSE "none")

\* SeedV with the undeclared buses flat-started at 1.0
SeedVUnit(a, x) ==
    IF a.initial_V = None
    THEN Cx(IF Vreg_declared(a, x) THEN Val(a.Vreg_mag[x]) ELSE Unit, 0)
    ELSE Cx(IF ~Vreg_declared(a, x) THEN Re(Val(a.initial_V)[x]) ELSE Val(a.Vreg_mag[x]),
            Im(Val(a.initial_V)[x]))

\* the initial V[x]
SeedV(a, x) ==
    IF a.initial_V = None
    THEN Cx(IF Vreg_declared(a, x) THEN Val(a.Vreg_mag[x]) ELSE Val(a.Vreg_mag[1]), 0)
    ELSE Cx(IF ~Vreg_declared(a, x) THEN Re(Val(a.initial_V)[x]) ELSE Val(a.Vreg_mag[x]),
            Im(Val(a.initial_V)[x]))

Setup ==
    /\ pc = "setup"
    /\ IF YbusIndexError(args)
       THEN /\ pc' = "raised" /\ exc' = "IndexError"
            /\ UNCHANGED <<V, Vmag, Vang, S, mismatch>>
       ELSE IF SeedError(args) # "none"
       THEN /\ pc' = "raised" /\ exc' = SeedError(args)
            /\ UNCHANGED <<V, Vmag, Vang, S, mismatch>>
       ELSE /\ pc' = "loop" /\ exc' = exc
            /\ V' = [x \in Buses |-> SeedV(args, x)]
            /\ Vmag' = [x \in Buses |-> CAbs(SeedV(args, x))]
            /\ Vang' = [x \in Buses |-> CAngle(SeedV(args, x))]
            /\ S' = [x \in Buses |-> CZero]
            /\ mismatch' = [k \in 1..(2 * (num_buses - 1)) |-> 0]
    /\ UNCHANGED <<copy, args, Sgen, Vregulating, del_val, iteration, solved,
                   passes, exit, past_solution, extVars>>

Init ==
    /\ copy \in Copies
    /\ args \in ArgSet
    /\ Accepts(copy, args)
    /\ Sgen = args.Sgen
    /\ pc = "call"
    /\ exc = "none"
    /\ V = << >> /\ Vmag = << >> /\ Vang = << >> /\ S = << >>
    /\ Vregulating = << >> /\ mismatch = << >> /\ del_val = << >>
    /\ iteration = 0
    /\ solved = FALSE
    /\ passes = 0
    /\ exit = "none"
    /\ past_solution = None
    /\ other = None
    /\ jac = None /\ sim_state = None /\ five_bus = None

-----------------------------------------------------------------------------
(* One pass of the iteration loop *)

\* V[i] = complex(Vmag[i] cos Vang[i], Vmag[i] sin Vang[i]) for i >= 1;
\* V[0] is left as seeded
Phasors(v, vm, va) ==
    [x \in Buses |-> IF x = 1 THEN v[1] ELSE Polar(vm[x], va[x])]

\* np.matmul needs a rectangular Ybus_matrix
MatmulError(a) ==
    \E i \in 1..Len(a.Ybus_matrix) : Len(a.Ybus_matrix[i]) # Len(a.Ybus_matrix[1])

\* I = np.matmul(Ybus_matrix, V): the real and imaginary part of
\* sum over j <= n of Ybus_matrix[i][j] * V[j]
RECURSIVE CurrentRe(_, _, _)
CurrentRe(v, i, n) ==
    IF n = 0 THEN 0
    ELSE CurrentRe(v, i, n - 1)
         + FMul(args.Ybus_matrix[i][n][1], v[n][1])
         - FMul(args.Ybus_matrix[i][n][2], v[n][2])
RECURSIVE CurrentIm(_, _, _)
CurrentIm(v, i, n) ==
    IF n = 0 THEN 0
    ELSE CurrentIm(v, i, n - 1)
         + FMul(args.Ybus_matrix[i][n][1], v[n][2])
         + FMul(args.Ybus_matrix[i][n][2], v[n][1])
Current(v) == [i \in Buses |-> Cx(CurrentRe(v, i, num_buses), CurrentIm(v, i, num_buses))]

\* S = [V[i] * np.conjugate(I[i]) for i in range(num_buses)]
PowerOf(v, I) ==
    [i \in Buses |-> Cx(FMul(v[i][1], I[i][1]) + FMul(v[i][2], I[i][2]),
                        FMul(v[i][2], I[i][1]) - FMul(v[i][1], I[i][2]))]
Power(v) == CHOOSE s \in {PowerOf(v, I) : I \in {Current(v)}} : TRUE

QminAt(x) == IF args.Qgen_min = None THEN None ELSE Val(args.Qgen_min)[x]
QmaxAt(x) == IF args.Qgen_max = None THEN None ELSE Val(args.Qgen_max)[x]
CapAt(x) == IF args.Qgen_cap = None THEN None ELSE Val(args.Qgen_cap)[x]

\* CapApplies with the limits applied although the callback raised
CapAppliesOnError(c, x, sg) ==
    /\ CapAt(x) # None
    /\ sg # None
    /\ c # "original"

\* the dynamic-limit block runs to its end: the callback returns, and the
\* comparison is between floats.  The original compares the complex
\* S[i].imag + Sload[i] with a float, which raises TypeError inside the try.
CapApplies(c, x, sg) ==
    /\ CapAt(x) # None
    /\ sg # None
    /\ Val(CapAt(x)).kind # "raises"
    /\ c # "original"

\* Classify with a pinned entry built as complex(real=0.0, imag=limit)
ClassifyLosesReal(c, x, s, vm, sg) ==
    LET q == Im(s[x]) + Im(Sload[x])
        vreg == Val(args.Vreg_mag[x])
        under1 == /\ QminAt(x) # None
                  /\ (q <= Val(QminAt(x)) \/ vm[x] > vreg)
        sg1 == IF under1 THEN Cx(0, Val(QminAt(x))) ELSE sg
        over1 == /\ QmaxAt(x) # None
                 /\ (q >= Val(QmaxAt(x)) \/ vm[x] < vreg)
        sg2 == IF over1 THEN Cx(0, Val(QmaxAt(x))) ELSE sg1
    IN  [sgen |-> sg2, reg |-> (~under1) /\ (~over1)]

\* Classify with Vregulating[i] = (not under) or (not over)
ClassifyOr(c, x, s, vm, sg) ==
    LET q == Im(s[x]) + Im(Sload[x])
        vreg == Val(args.Vreg_mag[x])
        under1 == /\ QminAt(x) # None
                  /\ (q <= Val(QminAt(x)) \/ vm[x] > vreg)
        sg1 == IF under1 THEN Cx(Re(sg), Val(QminAt(x))) ELSE sg
        over1 == /\ QmaxAt(x) # None
                 /\ (q >= Val(QmaxAt(x)) \/ vm[x] < vreg)
        sg2 == IF over1 THEN Cx(Re(sg1), Val(QmaxAt(x))) ELSE sg1
    IN  [sgen |-> sg2, reg |-> (~under1) \/ (~over1)]

\* classification of a declared bus x whose Sgen entry sg is not None:
\* the new Sgen[x] and Vregulating[x]
Classify(c, x, s, vm, sg) ==
    LET q == Im(s[x]) + Im(Sload[x])
        vreg == Val(args.Vreg_mag[x])
        under1 == /\ QminAt(x) # None
                  /\ (q <= Val(QminAt(x)) \/ vm[x] > vreg)
        sg1 == IF under1 THEN Cx(Re(sg), Val(QminAt(x))) ELSE sg
        over1 == /\ QmaxAt(x) # None
                 /\ (q >= Val(QmaxAt(x)) \/ vm[x] < vreg)
        sg2 == IF over1 THEN Cx(Re(sg1), Val(QmaxAt(x))) ELSE sg1
        dyn == CapApplies(c, x, sg2)
        under2 == dyn /\ (q <= Val(CapAt(x)).qmin \/ vm[x] > vreg)
        sg3 == IF ~under2 THEN sg2
               ELSE IF under1 THEN Cx(Re(sg2), MaxInt(Im(sg2), Val(CapAt(x)).qmin))
               ELSE Cx(Re(sg2), Val(CapAt(x)).qmin)
        over2 == dyn /\ (q >= Val(CapAt(x)).qmax \/ vm[x] < vreg)
        sg4 == IF ~over2 THEN sg3
               ELSE IF over1 THEN Cx(Re(sg3), MinInt(Im(sg3), Val(CapAt(x)).qmax))
               ELSE Cx(Re(sg3), Val(CapAt(x)).qmax)
        under == under1 \/ under2
        over == over1 \/ over2
    IN  IF c = "condensed"
        THEN [sgen |-> sg, reg |-> TRUE]
        ELSE [sgen |-> sg4, reg |-> (~under) /\ (~over)]

\* the exception bus x raises when Sgen[x] is None: Sgen[i].real in a static
\* limit check, else Sgen[i] - Sload[i] (the try around the callback
\* swallows the AttributeError of its Sgen[i].real)
NoneSgenError(c, x, s, vm) ==
    LET q == Im(s[x]) + Im(Sload[x])
        vreg == Val(args.Vreg_mag[x])
    IN  IF /\ c # "condensed"
           /\ Vreg_declared(args, x)
           /\ \/ QminAt(x) # None /\ (q <= Val(QminAt(x)) \/ vm[x] > vreg)
              \/ QmaxAt(x) # None /\ (q >= Val(QmaxAt(x)) \/ vm[x] < vreg)
        THEN "AttributeError"
        ELSE "TypeError"

ConstIAt(x) == IF args.Sload_const_I = None THEN None ELSE Val(args.Sload_const_I)[x]
ConstYAt(x) == IF args.Sload_const_Y = None THEN None ELSE Val(args.Sload_const_Y)[x]

\* Snet = Sgen[i] - Sload[i] - Vmag[i] * Sload_const_I[i]
\*        - Vmag[i]^2 * Sload_const_Y[i]
Snet(x, sg, vm) ==
    LET s0 == CSub(sg, Sload[x])
        s1 == IF ConstIAt(x) # None THEN CSub(s0, CScale(vm[x], ConstIAt(x))) ELSE s0
    IN  IF ConstYAt(x) # None
        THEN CSub(s1, CScale(FMul(vm[x], vm[x]), ConstYAt(x)))
        ELSE s1

\* the for loop over the buses 1..N-1 (here x..num_buses): st carries Sgen,
\* Vregulating, mismatch and the exception that ended the loop
RECURSIVE BusLoop(_, _, _, _, _)
BusLoop(c, x, s, vm, st) ==
    IF x > num_buses \/ st.err # "none" THEN st
    ELSE IF st.Sgen[x] = None
    THEN [st EXCEPT !.err = NoneSgenError(c, x, s, vm)]
    ELSE LET cl == IF Vreg_declared(args, x)
                   THEN Classify(c, x, s, vm, st.Sgen[x])
                   ELSE [sgen |-> st.Sgen[x], reg |-> FALSE]
             Serr == CSub(Snet(x, cl.sgen, vm), s[x])
             P == x - 1
             Q == x - 1 + (num_buses - 1)
         IN  BusLoop(c, x + 1, s, vm,
                 [ Sgen |-> [st.Sgen EXCEPT ![x] = cl.sgen],
                   Vregulating |-> [st.Vregulating EXCEPT ![x] = cl.reg],
                   mismatch |-> [st.mismatch EXCEPT
                                    ![P] = Re(Serr),
                                    ![Q] = IF cl.reg THEN 0 ELSE Im(Serr)],
                   err |-> "none" ])

\* ClassifyAndMismatch with the real-power and reactive-power halves of the
\* mismatch vector exchanged
ClassifyAndMismatchSwapped(c, s, vm, sg, mm) ==
    LET st == BusLoop(c, 2, s, vm,
                [ Sgen |-> sg,
                  Vregulating |-> [x \in Buses |-> FALSE],
                  mismatch |-> mm,
                  err |-> "none" ])
        n == num_buses - 1
    IN  [st EXCEPT !.mismatch =
            [k \in DOMAIN st.mismatch |->
                IF k <= n THEN st.mismatch[k + n] ELSE st.mismatch[k - n]]]

\* ClassifyAndMismatch with the loop starting at the slack bus
ClassifyAndMismatchAll(c, s, vm, sg, mm) ==
    BusLoop(c, 1, s, vm,
        [ Sgen |-> sg,
          Vregulating |-> [x \in Buses |-> FALSE],
          mismatch |-> [k \in 0..Len(mm) |-> 0],
          err |-> "none" ])

\* for i in range(1, num_buses): classification and mismatch of every
\* non-slack bus, with Vregulating = [False for x in range(num_buses)]
ClassifyAndMismatch(c, s, vm, sg, mm) ==
    BusLoop(c, 2, s, vm,
        [ Sgen |-> sg,
          Vregulating |-> [x \in Buses |-> FALSE],
          mismatch |-> mm,
          err |-> "none" ])

\* the Jacobian of a network without admittances is the zero matrix
JacobianZero ==
    \A i \in Buses : \A j \in Buses : args.Ybus_matrix[i][j] = CZero

\* NewVmag without the snap of a regulating bus to its setpoint
NewVmagNoSnap(c, x, vm, reg, d) == vm[x] + d

\* NewVmag without the clamp at the setpoint of a declared bus that is not
\* regulating
NewVmagNoClamp(c, x, vm, reg, d) ==
    IF ~Vreg_declared(args, x) THEN vm[x] + d
    ELSE IF c = "condensed" \/ reg[x] THEN Val(args.Vreg_mag[x])
    ELSE vm[x] + d

\* the new magnitude of bus x under the correction d
NewVmag(c, x, vm, reg, d) ==
    IF ~Vreg_declared(args, x) THEN vm[x] + d
    ELSE IF c = "condensed" \/ reg[x] THEN Val(args.Vreg_mag[x])
    ELSE LET vreg == Val(args.Vreg_mag[x])
         IN  IF vm[x] > vreg
             THEN (IF d < vreg - vm[x] THEN vreg ELSE vm[x] + d)
             ELSE IF vm[x] < vreg
             THEN (IF d > vreg - vm[x] THEN vreg ELSE vm[x] + d)
             ELSE vm[x] + d

RECURSIVE SeqMax(_)
SeqMax(s) == IF Len(s) = 1 THEN s[1] ELSE MaxInt(Head(s), SeqMax(Tail(s)))
RECURSIVE SeqMin(_)
SeqMin(s) == IF Len(s) = 1 THEN s[1] ELSE MinInt(Head(s), SeqMin(Tail(s)))

\* max(max(del_val), -min(del_val))
MaxMismatch(dv) == MaxInt(SeqMax(dv), -SeqMin(dv))

\* LoopExit with the iteration limit tested by > instead of >=
LoopExitLate(c, it, dv) ==
    IF it > MAX_ITERATIONS THEN "max_iterations"
    ELSE IF MaxMismatch(dv) <= TOLERANCE THEN "tolerance"
    ELSE "none"

\* the test that ends the loop after a pass: which break is taken, or "none"
LoopExit(c, it, dv) ==
    IF c = "ported"
    THEN (IF it >= MAX_ITERATIONS THEN "max_iterations"
          ELSE IF MaxMismatch(dv) <= TOLERANCE THEN "tolerance"
          ELSE "none")
    ELSE (IF it >= MAX_ITERATIONS \/ MaxMismatch(dv) <= TOLERANCE
          THEN (IF it >= MAX_ITERATIONS THEN "max_iterations" ELSE "tolerance")
          ELSE "none")

\* OnSingular without the try/except around the linear solve
OnSingularUncaught(c) == "raise"

\* what a failed np.linalg.inv does to the call: the ported copy catches
\* LinAlgError and breaks, the other copies let it propagate
OnSingular(c) == IF c = "ported" THEN "break" ELSE "raise"

\* the correction vectors the linear solve may return: every component of a
\* vector is the same d, so a vector is all zero, all positive or all negative
Deltas == { [k \in 1..(2 * (num_buses - 1)) |-> d] : d \in (-MaxDelta)..MaxDelta }

\* a correction either leaves a value where it is or leaves it within
\* MaxDelta of the flat start (0 rad, 1.0 pu)
InWindow(vm, va) ==
    \A x \in NonSlack :
        /\ va[x] = Vang[x] \/ AbsInt(va[x]) <= MaxDelta
        /\ vm[x] = Vmag[x] \/ AbsInt(vm[x] - Unit) <= MaxDelta

\* the exception types np.matmul raises on a ragged Ybus_matrix (the type
\* depends on the numpy version)
MatmulErrors == {"ValueError", "TypeError"}

Iterate ==
    /\ pc = "loop"
    /\ passes' = passes + 1
    /\ V' = Phasors(V, Vmag, Vang)
    /\ IF MatmulError(args)
       THEN /\ pc' = "raised"
            /\ exc' \in MatmulErrors
            /\ UNCHANGED <<Sgen, Vmag, Vang, S, Vregulating, mismatch, del_val,
                           iteration, solved, exit>>
       ELSE \E s1 \in {Power(V')} :
            \E st \in {ClassifyAndMismatch(copy, s1, Vmag, Sgen, mismatch)} :
                /\ S' = s1
                /\ Sgen' = st.Sgen
                /\ Vregulating' = st.Vregulating
                /\ mismatch' = st.mismatch
                /\ IF st.err # "none"
                   THEN /\ pc' = "raised"
                        /\ exc' = st.err
                        /\ UNCHANGED <<Vmag, Vang, del_val, iteration, solved, exit>>
                   ELSE \/ \* np.linalg.inv raises LinAlgError
                           /\ IF OnSingular(copy) = "break"
                              THEN pc' = "final" /\ exc' = exc /\ exit' = "singular"
                              ELSE pc' = "raised" /\ exc' = "LinAlgError" /\ exit' = exit
                           /\ UNCHANGED <<Vmag, Vang, del_val, iteration, solved>>
                        \/ \* the solve returns the correction del_val
                           /\ ~JacobianZero
                           /\ \E dv \in Deltas :
                                LET va == [x \in Buses |->
                                             IF x = 1 THEN Vang[1]
                                             ELSE Vang[x] + dv[x - 1]]
                                    vm == [x \in Buses |->
                                             IF x = 1 THEN Vmag[1]
                                             ELSE NewVmag(copy, x, Vmag, st.Vregulating,
                                                          dv[x - 1 + (num_buses - 1)])]
                                    ex == LoopExit(copy, iteration + 1, dv)
                                IN  /\ InWindow(vm, va)
                                    /\ del_val' = dv
                                    /\ Vang' = va
                                    /\ Vmag' = vm
                                    /\ iteration' = iteration + 1
                                    /\ exit' = ex
                                    /\ solved' = (ex = "tolerance")
                                    /\ pc' = IF ex = "none" THEN "loop" ELSE "final"
                                    /\ exc' = exc
    /\ UNCHANGED <<copy, args, past_solution, extVars>>

\* the S that is returned: the ported copy recomputes it from the final V
FinalS(c, v, s) == IF c = "ported" THEN Power(v) ELSE s

Finish ==
    /\ pc = "final"
    /\ V' = Phasors(V, Vmag, Vang)
    /\ S' = FinalS(copy, V', S)
    /\ pc' = "returned"
    /\ UNCHANGED <<copy, args, Sgen, exc, Vmag, Vang, Vregulating, mismatch,
                   del_val, iteration, solved, passes, exit, past_solution, extVars>>

Next == Validate \/ Setup \/ Iterate \/ Finish

Spec == Init /\ [][Next]_vars

\* the caller of the simulation loop: `if solved: past_solution = Vout`, and
\* the next call passes initial_V = past_solution with the same network, bus
\* specification and a fresh Sgen list
WarmStart ==
    /\ pc = "returned"
    /\ solved
    /\ past_solution = None
    /\ iteration <= MaxFirstCall
    /\ past_solution' = Some([V |-> V, Vmag |-> Vmag, Vang |-> Vang])
    /\ args' = [args EXCEPT !.initial_V = Some(V)]
    /\ Sgen' = args.Sgen
    /\ pc' = "call"
    /\ exc' = "none"
    /\ V' = << >> /\ Vmag' = << >> /\ Vang' = << >> /\ S' = << >>
    /\ Vregulating' = << >> /\ mismatch' = << >> /\ del_val' = << >>
    /\ iteration' = 0
    /\ solved' = FALSE
    /\ passes' = 0
    /\ exit' = "none"
    /\ UNCHANGED <<copy, extVars>>

NextWarm == Next \/ WarmStart

SpecWarm == Init /\ [][NextWarm]_vars

-----------------------------------------------------------------------------
(* The correction step of one pass, from any magnitude *)

\* the largest component of a correction vector in the correction step
MaxStep == 3

\* the calls whose bus 1 is a load bus, a PV bus at 1.0 pu with reactive
\* limits, and a PV bus at 1.1 pu
CorrectArgs ==
    { BaseArgs,
      [PVArgs EXCEPT !.Qgen_min = Some(<< None, Some(-QLim) >>),
                     !.Qgen_max = Some(<< None, Some(QLim) >>)],
      [PVArgs EXCEPT !.Vreg_mag = << Some(Unit), Some(Unit + 1) >>,
                     !.Qgen_min = Some(<< None, Some(1) >>),
                     !.Qgen_max = Some(<< None, Some(QLim) >>)] }

\* the state of a call at the solve of a pass: magnitudes within MaxStep - 1
\* of 1.0 pu, and bus 1 regulating or not (a bus without target never is,
\* and the condensed copy knows no limits)
InitCorrect ==
    /\ copy \in Copies
    /\ args \in CorrectArgs
    /\ Accepts(copy, args)
    /\ Sgen = args.Sgen
    /\ pc = "loop"
    /\ exc = "none"
    /\ V = FlatV /\ S = Zeros2
    /\ \E m \in (Unit - (MaxStep - 1))..(Unit + (MaxStep - 1)) :
            Vmag = << Unit, m >>
    /\ Vang = << 0, 0 >>
    /\ \E r \in BOOLEAN :
            /\ r => Vreg_declared(args, 2)
            /\ (copy = "condensed" /\ Vreg_declared(args, 2)) => r
            /\ Vregulating = << FALSE, r >>
    /\ mismatch = << 0, 0 >> /\ del_val = << >>
    /\ iteration = 0
    /\ solved = FALSE
    /\ passes = 1
    /\ exit = "none"
    /\ past_solution = None
    /\ other = None
    /\ jac = None /\ sim_state = None /\ five_bus = None

\* del_val = inv(jacobian) * mismatch, then the for loop that applies it
Correct ==
    /\ pc = "loop"
    /\ \E dv \in [1..(2 * (num_buses - 1)) -> (-MaxStep)..MaxStep] :
            /\ del_val' = dv
            /\ Vang' = [x \in Buses |->
                            IF x = 1 THEN Vang[1] ELSE Vang[x] + dv[x - 1]]
            /\ Vmag' = [x \in Buses |->
                            IF x = 1 THEN Vmag[1]
                            ELSE NewVmag(copy, x, Vmag, Vregulating,
                                         dv[x - 1 + (num_buses - 1)])]
    /\ pc' = "corrected"
    /\ UNCHANGED <<copy, args, Sgen, exc, V, S, Vregulating, mismatch,
                   iteration, solved, passes, exit, past_solution, extVars>>

SpecCorrect == InitCorrect /\ [][Correct]_vars

-----------------------------------------------------------------------------
(* calculate_Jacobian *)

\* the largest network the Jacobian is computed for
MaxBuses == 3

\* a chain of n buses joined by branches of admittance y, bus x to bus x + 1
ChainYbus(n, y) ==
    [i \in 1..n |-> [j \in 1..n |->
        IF i = j THEN (IF i = 1 \/ i = n THEN y ELSE Cx(2 * Re(y), 2 * Im(y)))
        ELSE IF i = j + 1 \/ j = i + 1 THEN CNeg(y)
        ELSE CZero]]

\* a call on a chain of n buses: slack bus 0, load buses 1..n-1
ChainArgs(n, y) ==
    [BaseArgs EXCEPT !.Ybus_matrix = ChainYbus(n, y),
                     !.Vreg_mag = [x \in 1..n |-> IF x = 1 THEN Some(Unit) ELSE None],
                     !.Sgen = [x \in 1..n |-> IF x = 1 THEN None
                                              ELSE Cx((8 * Unit) \div 10, 0)]]

\* Ybus_mag[i][k] and Ybus_ang[i][k]
Ybus_mag(i, k) == CAbs(args.Ybus_matrix[i][k])
Ybus_ang(i, k) == CAngle(args.Ybus_matrix[i][k])

\* size = (num_buses - 1) * 2
size == (num_buses - 1) * 2

\* the row or column of the angle half (i - 1, j - 1) and of the magnitude
\* half (i + num_buses - 2, j + num_buses - 2) for bus x
AngleIndex(x) == x - 1
MagnitudeIndexShort(x) == x - 1 + (num_buses - 2)
MagnitudeIndex(x) == x - 1 + (num_buses - 1)

\* SkipsSelf with every diagonal sum leaving out k = i
SkipsSelfAlways(block) == TRUE

\* which diagonal sums carry the test `if k != i`
SkipsSelf(block) == block \in {"dP_dDelta", "dQ_dDelta"}

Trig(f, a) == IF f = "sin" THEN Sin(a) ELSE Cos(a)

\* Ybus_mag[i][k] * Vmag[k] * m.sin(Vang[i] - Vang[k] - Ybus_ang[i][k]), or
\* the same with m.cos
Term(i, k, f) ==
    FMul(FMul(Ybus_mag(i, k), Vmag[k]), Trig(f, Vang[i] - Vang[k] - Ybus_ang(i, k)))

\* for k in range(num_buses): temp += Term, from bus k on
RECURSIVE SumOverK(_, _, _, _)
SumOverK(i, k, block, f) ==
    IF k > num_buses THEN 0
    ELSE (IF SkipsSelf(block) /\ k = i THEN 0 ELSE Term(i, k, f))
         + SumOverK(i, k + 1, block, f)

\* Vmag[i] * Ybus_mag[i][j] * Vmag[j] * trig(Vang[i] - Vang[j] - Ybus_ang[i][j])
OffDiag3(i, j, f) ==
    FMul(FMul(FMul(Vmag[i], Ybus_mag(i, j)), Vmag[j]),
         Trig(f, Vang[i] - Vang[j] - Ybus_ang(i, j)))
\* Vmag[i] * Ybus_mag[i][j] * trig(Vang[i] - Vang[j] - Ybus_ang[i][j])
OffDiag2(i, j, f) ==
    FMul(FMul(Vmag[i], Ybus_mag(i, j)), Trig(f, Vang[i] - Vang[j] - Ybus_ang(i, j)))

\* the four entries of the bus pair (i, j)
dP_dDelta(i, j) ==
    IF i = j THEN FMul(SumOverK(i, 1, "dP_dDelta", "sin"), -Vmag[i])
    ELSE OffDiag3(i, j, "sin")
dP_dV(i, j) ==
    IF i = j THEN FMul(FMul(Vmag[i], Ybus_mag(i, j)), Cos(Ybus_ang(i, j)))
                  + SumOverK(i, 1, "dP_dV", "cos")
    ELSE OffDiag2(i, j, "cos")
dQ_dDelta(i, j) ==
    IF i = j THEN FMul(SumOverK(i, 1, "dQ_dDelta", "cos"), Vmag[i])
    ELSE -OffDiag3(i, j, "cos")
dQ_dV(i, j) ==
    IF i = j THEN FMul(FMul(-Vmag[i], Ybus_mag(i, j)), Sin(Ybus_ang(i, j)))
                  + SumOverK(i, 1, "dQ_dV", "sin")
    ELSE OffDiag2(i, j, "sin")

\* jacobian[r][c] = val; an index outside the matrix raises IndexError
WriteCell(st, r, c, val) ==
    IF st.err # "none" THEN st
    ELSE IF r \notin 1..size \/ c \notin 1..size
    THEN [st EXCEPT !.err = "IndexError"]
    ELSE [st EXCEPT !.jacobian[r][c] = val, !.writes[r][c] = @ + 1]

\* jacobian = [[0.0 for x in range(size)] for y in range(size)], and the
\* loops about to start at i = j = 1
NewJacobian ==
    [ i |-> 2, j |-> 2,
      jacobian |-> [r \in 1..size |-> [c \in 1..size |-> 0]],
      writes |-> [r \in 1..size |-> [c \in 1..size |-> 0]],
      err |-> "none" ]

\* a pass of the loop about to compute its Jacobian, on a chain of 2 to
\* MaxBuses buses with magnitudes and angles near the flat start
InitJacobian ==
    /\ copy \in {"ported", "original"}
    /\ \E n \in 2..MaxBuses : \E y \in {Yext, Cx(Unit, -2 * Unit)} :
            args = ChainArgs(n, y)
    /\ Sgen = args.Sgen
    /\ pc = "loop"
    /\ exc = "none"
    /\ Vmag \in [Buses -> {Unit - 1, Unit + 1}]
    /\ Vang \in [Buses -> {0, 1}]
    /\ Vmag[1] = Unit + 1 /\ Vang[1] = 0
    /\ V = Phasors([x \in Buses |-> Cx(Vmag[1], 0)], Vmag, Vang)
    /\ S = [x \in Buses |-> CZero]
    /\ Vregulating = [x \in Buses |-> FALSE]
    /\ mismatch = [k \in 1..size |-> 0] /\ del_val = << >>
    /\ iteration = 0
    /\ solved = FALSE
    /\ passes = 1
    /\ exit = "none"
    /\ past_solution = None
    /\ other = None
    /\ jac = Some(NewJacobian)
    /\ sim_state = None /\ five_bus = None

\* one turn of the inner loop body: the four writes of the bus pair (i, j)
JacobianCell ==
    /\ jac # None
    /\ Val(jac).err = "none"
    /\ Val(jac).i <= num_buses
    /\ LET i == Val(jac).i
           j == Val(jac).j
           s1 == WriteCell(Val(jac), AngleIndex(i), AngleIndex(j), dP_dDelta(i, j))
           s2 == WriteCell(s1, AngleIndex(i), MagnitudeIndex(j), dP_dV(i, j))
           s3 == WriteCell(s2, MagnitudeIndex(i), AngleIndex(j), dQ_dDelta(i, j))
           s4 == WriteCell(s3, MagnitudeIndex(i), MagnitudeIndex(j), dQ_dV(i, j))
       IN  jac' = Some([s4 EXCEPT !.i = IF j = num_buses THEN i + 1 ELSE i,
                                  !.j = IF j = num_buses THEN 2 ELSE j + 1])
    /\ UNCHANGED <<solverVars, past_solution, other, sim_state, five_bus>>

SpecJacobian == InitJacobian /\ [][JacobianCell]_vars

-----------------------------------------------------------------------------
(* The two-bus simulation of voltage_control.py *)
\* Times are in milliseconds, voltages and powers in 1/Unit pu, the system
\* reactance and the noise level in 1/1000 pu.

\* simulate_step is called at most MaxCalls times
MaxCalls == 3

\* the rolling window keeps WindowPoints samples (max_data_points, 200 in
\* the source)
WindowPoints == 3

\* the 10.0 seconds of the time window
TimeWindow == 10000

Last(s) == s[Len(s)]

RECURSIVE GCD(_, _)
GCD(a, b) == IF b = 0 THEN a ELSE GCD(b, a % b)

\* x * num / den in fixed point, for num >= 0 and den > 0
Ratio(x, num, den) == (x * (num \div GCD(num, den))) \div (den \div GCD(num, den))

\* initialize_data: two starting points
initialize_data(st) ==
    [st EXCEPT !.time_vals = << -2 * st.DELT, -st.DELT >>,
               !.voltage_vals = << Unit, Unit >>,
               !.voltage_ref_vals = << Unit, Unit >>,
               !.reactive_vals = << 0, 0 >>,
               !.reactive_ref_vals = << 0, 0 >>]

\* SimulationState.__init__; calls counts the simulate_step calls made and
\* result holds what the last simulate_step returned as 'converged', the
\* outcome of its power flow and the magnitude abs(Vout[1]) it returned
NewSimulationState ==
    initialize_data(
        [ DELT |-> 50, SYS_XE |-> 50, TQ_PLANT |-> 250,
          VCTRL_KP |-> 10, VCTRL_KI |-> 50, NOISE |-> 2,
          PINIT |-> (8 * Unit) \div 10,
          TQ_STORE |-> 0, KI_STORE |-> 0,
          max_data_points |-> WindowPoints,
          time_vals |-> << >>, voltage_vals |-> << >>, voltage_ref_vals |-> << >>,
          reactive_vals |-> << >>, reactive_ref_vals |-> << >>,
          current_time |-> 0, iteration_count |-> 0,
          calls |-> 0,
          result |-> [converged |-> TRUE, flow |-> "none", solved |-> FALSE,
                      v_new |-> 0, error |-> "none"] ])

\* the five series in the order maintain_rolling_window pops them
TheSeries == << "time_vals", "voltage_vals", "voltage_ref_vals",
                "reactive_vals", "reactive_ref_vals" >>

\* the pop(0) calls of one turn of a while loop, from series k on: pop(0)
\* of an empty list raises IndexError and leaves the later lists alone
RECURSIVE PopFront(_, _)
PopFront(w, k) ==
    IF k > Len(TheSeries) \/ w.err # "none" THEN w
    ELSE IF w.st[TheSeries[k]] = << >> THEN [w EXCEPT !.err = "IndexError"]
    ELSE PopFront([w EXCEPT !.st[TheSeries[k]] = Tail(@)], k + 1)

\* while len(self.time_vals) > self.max_data_points: pop
RECURSIVE TrimCount(_)
TrimCount(w) ==
    IF w.err # "none" \/ Len(w.st.time_vals) <= w.st.max_data_points THEN w
    ELSE TrimCount(PopFront(w, 1))

\* while time_vals and len(time_vals) > 2 and
\*       time_vals[0] < current_time - 10.0: pop
RECURSIVE TrimTime(_, _)
TrimTime(w, now) ==
    IF \/ w.err # "none"
       \/ Len(w.st.time_vals) <= 2
       \/ ~(w.st.time_vals[1] < now - TimeWindow)
    THEN w
    ELSE TrimTime(PopFront(w, 1), now)

\* maintain_rolling_window
maintain_rolling_window(st) ==
    LET w == TrimCount([st |-> st, err |-> "none"])
        now == IF w.st.time_vals # << >> THEN SeqMax(w.st.time_vals) ELSE 0
    IN  TrimTime(w, now)

\* what the power flow of a step may do: return a bus-1 voltage magnitude
\* with the flag solved, or raise
FlowOutcomes ==
    [ flow : {"returned"}, solved : BOOLEAN, v_new : {Unit - 2, Unit} ]
    \cup [ flow : {"raised"}, solved : {FALSE}, v_new : {0} ]

\* the reference the page passes to simulate_step
References == {Unit, Unit + 1}

\* simulate_step up to the plant lag (lines 181-212): the state with the
\* time, the reference and the reactive command appended, and q_err
StepHead(st, voltage_reference) ==
    LET s1 == [st EXCEPT !.current_time = @ + st.DELT,
                         !.time_vals = Append(@, st.current_time + st.DELT),
                         !.voltage_ref_vals = Append(@, voltage_reference)]
        error == IF Len(s1.voltage_vals) > 0
                 THEN voltage_reference - Last(s1.voltage_vals) ELSE 0
        DSTATE == error * s1.VCTRL_KI
        ki == s1.KI_STORE + Ratio(DSTATE, s1.DELT, 1000)
        Qcmd == error * s1.VCTRL_KP + ki + Ratio(DSTATE, s1.DELT, 2000)
        s2 == [s1 EXCEPT !.KI_STORE = ki,
                         !.reactive_ref_vals = Append(@, Qcmd)]
        q_last == IF Len(s2.reactive_vals) > 0 THEN Last(s2.reactive_vals) ELSE 0
    IN  [st |-> s2, q_err |-> Qcmd - q_last]

\* the plant lag and the power flow (lines 214-247): o is what the solver did
StepTail(h, o) ==
    LET s2 == h.st
        tq == s2.TQ_STORE + Ratio(h.q_err, s2.DELT, s2.TQ_PLANT)
        q_new == tq + Ratio(h.q_err, s2.DELT, 2 * s2.TQ_PLANT)
        s3 == [s2 EXCEPT !.TQ_STORE = tq, !.reactive_vals = Append(@, q_new)]
        v == IF o.flow = "returned" THEN o.v_new
             ELSE IF Len(s3.voltage_vals) > 0 THEN Last(s3.voltage_vals)
             ELSE Unit
    IN  [s3 EXCEPT !.voltage_vals = Append(@, v)]

\* simulate_step(voltage_reference)
simulate_step(st, voltage_reference, o) ==
    LET h == StepHead(st, voltage_reference)
        counted == [h.st EXCEPT !.calls = @ + 1]
    IN  IF h.st.TQ_PLANT = 0
        THEN \* q_err / TQ_PLANT raises; the outer handler returns
             [counted EXCEPT !.result = [converged |-> FALSE, flow |-> "none",
                                         solved |-> FALSE, v_new |-> 0,
                                         error |-> "ZeroDivisionError"]]
        ELSE LET w == maintain_rolling_window(
                          StepTail([h EXCEPT !.st = counted], o))
             IN  IF w.err # "none"
                 THEN [w.st EXCEPT !.result = [converged |-> FALSE, flow |-> o.flow,
                                               solved |-> o.solved, v_new |-> o.v_new,
                                               error |-> w.err]]
                 ELSE [w.st EXCEPT !.iteration_count = @ + 1,
                                   !.result = [converged |-> (o.flow = "returned" /\ o.solved),
                                               flow |-> o.flow, solved |-> o.solved,
                                               v_new |-> o.v_new, error |-> "none"]]

\* the dictionaries the page passes to update_parameters
ParamDicts ==
    { [simulation_interval |-> 50], [simulation_interval |-> 4000],
      [plant_time_constant |-> 0], [plant_time_constant |-> 250],
      [voltage_kp |-> 5, voltage_ki |-> 50, noise_level |-> 0,
       system_reactance |-> 100, active_power |-> Unit \div 2] }

Given(d, key, old) == IF key \in DOMAIN d THEN d[key] ELSE old

\* update_parameters(param_dict)
update_parameters(st, d) ==
    [st EXCEPT !.DELT = Given(d, "simulation_interval", @),
               !.NOISE = Given(d, "noise_level", @),
               !.SYS_XE = Given(d, "system_reactance", @),
               !.TQ_PLANT = Given(d, "plant_time_constant", @),
               !.VCTRL_KP = Given(d, "voltage_kp", @),
               !.VCTRL_KI = Given(d, "voltage_ki", @),
               !.PINIT = Given(d, "active_power", @)]

\* reset_simulation
reset_simulation(st) ==
    initialize_data([st EXCEPT !.TQ_STORE = 0, !.KI_STORE = 0,
                               !.current_time = 0, !.iteration_count = 0])

\* no solver call is in progress
NoCall ==
    /\ copy = "ported" /\ args = BaseArgs /\ Sgen = args.Sgen
    /\ pc = "idle" /\ exc = "none"
    /\ V = << >> /\ Vmag = << >> /\ Vang = << >> /\ S = << >>
    /\ Vregulating = << >> /\ mismatch = << >> /\ del_val = << >>
    /\ iteration = 0 /\ solved = FALSE /\ passes = 0 /\ exit = "none"
    /\ past_solution = None /\ other = None /\ jac = None

InitSim ==
    /\ NoCall
    /\ sim_state = Some(NewSimulationState)
    /\ five_bus = None

SimulateStep ==
    /\ sim_state # None
    /\ Val(sim_state).calls < MaxCalls
    /\ \E voltage_reference \in References : \E o \in FlowOutcomes :
            sim_state' = Some(simulate_step(Val(sim_state), voltage_reference, o))
    /\ UNCHANGED <<solverVars, past_solution, other, jac, five_bus>>

UpdateParameters ==
    /\ sim_state # None
    /\ \E d \in ParamDicts :
            sim_state' = Some(update_parameters(Val(sim_state), d))
    /\ UNCHANGED <<solverVars, past_solution, other, jac, five_bus>>

ResetSimulation ==
    /\ sim_state # None
    /\ sim_state' = Some(reset_simulation(Val(sim_state)))
    /\ UNCHANGED <<solverVars, past_solution, other, jac, five_bus>>

NextSim == SimulateStep \/ UpdateParameters \/ ResetSimulation

SpecSim == InitSim /\ [][NextSim]_vars

-----------------------------------------------------------------------------
(* The five-bus simulation of 5bus_system.py *)
\* Voltages, powers and impedances are in 1/1000 pu, times in steps of DELT.
\* The controllers of lines 253-359 compute the power the solver is called
\* with and fill the command series; the solver's answer is drawn, so they
\* are not part of the state.

\* the rolling window keeps the samples of the last WindowSteps steps
\* (WINDOW_TIME / DELT, 1500 in the source)
WindowSteps == 2

INV_VRT_BAND == 100
INV_VRT_HYST == 5
SYS_XE == 500
MPT_TAP == 1025
MPT_Z == Cx(2, 100)
DELT == 20
TV_PLANT == 200
VINIT == 1025
PINIT == 800
QINIT == 0
VSYS == 1097
VCOL_INIT == 1005
PCOL_INIT == 801
QCOL_INIT == 64
VINV_INIT == 1021

\* the largest r with r * r <= n, found between lo and hi
RECURSIVE SqrtBetween(_, _, _)
SqrtBetween(n, lo, hi) ==
    IF lo >= hi THEN lo
    ELSE LET mid == (lo + hi + 1) \div 2
         IN  IF mid * mid <= n THEN SqrtBetween(n, mid, hi)
             ELSE SqrtBetween(n, lo, mid - 1)

\* abs() of a complex number in 1/1000
Magnitude(z) == SqrtBetween(Re(z) * Re(z) + Im(z) * Im(z), 0, 4000)

\* product and quotient of two complex numbers in 1/1000
MilliMul(a, b) == Cx((Re(a) * Re(b) - Im(a) * Im(b)) \div 1000,
                     (Re(a) * Im(b) + Im(a) * Re(b)) \div 1000)
MilliDiv(a, b) ==
    LET den == Re(b) * Re(b) + Im(b) * Im(b)
    IN  Cx(((Re(a) * Re(b) + Im(a) * Im(b)) * 1000) \div den,
           ((Im(a) * Re(b) - Re(a) * Im(b)) * 1000) \div den)
Conj(z) == Cx(Re(z), -Im(z))

\* the measurements taken from a solved V (lines 376-387)
Spoi(Vout) == MilliMul(Vout[2], Conj(MilliDiv(CSub(Vout[2], Vout[1]), Cx(0, SYS_XE))))
Scol(Vout) ==
    MilliMul(Vout[3],
             Conj(MilliDiv(CSub(Vout[3], MilliDiv(Vout[2], Cx(MPT_TAP, 0))), MPT_Z)))
Measured(Vout) ==
    [ vpoi_vals |-> Magnitude(Vout[2]),
      vcol_vals |-> Magnitude(Vout[3]),
      vinv_vals |-> Magnitude(Vout[5]),
      ppoi_vals |-> Re(Spoi(Vout)),
      qpoi_vals |-> Im(Spoi(Vout)),
      pcol_vals |-> Re(Scol(Vout)),
      qcol_vals |-> Im(Scol(Vout)) ]

\* the measured series, in the order of the appends
MeasuredSeries == << "vpoi_vals", "vcol_vals", "vinv_vals", "ppoi_vals",
                     "qpoi_vals", "pcol_vals", "qcol_vals" >>

\* t_vals and the measured series, in the order the rolling window pops them
WindowSeries == << "t_vals", "vpoi_vals", "ppoi_vals", "qpoi_vals",
                   "vcol_vals", "pcol_vals", "qcol_vals", "vinv_vals" >>

\* the module globals after import, and after reset_simulation; calls counts
\* the simulate_step calls made and result holds the outcome of the last
\* one: what the power flow did, its solved and Vout, and the exception the
\* step ended with
NewFiveBus ==
    [ current_time |-> 0, iteration_count |-> 0,
      t_vals |-> << -2, -1 >>,
      vpoi_vals |-> << VINIT, VINIT >>,
      ppoi_vals |-> << PINIT, PINIT >>,
      qpoi_vals |-> << QINIT, QINIT >>,
      vcol_vals |-> << VCOL_INIT, VCOL_INIT >>,
      pcol_vals |-> << PCOL_INIT, PCOL_INIT >>,
      qcol_vals |-> << QCOL_INIT, QCOL_INIT >>,
      vinv_vals |-> << VINV_INIT, VINV_INIT >>,
      TV_INV_STORE |-> 0,
      vinv_fdbk |-> VINV_INIT,
      INV_VFREEZE |-> FALSE,
      past_solution |-> None,
      calls |-> 0,
      result |-> [flow |-> "none", solved |-> FALSE, Vout |-> << >>,
                  error |-> "none"] ]

\* reset_simulation
reset_five_bus(fb) == [NewFiveBus EXCEPT !.calls = fb.calls]

\* the inverter voltages the solver may return
Levels == {890, 902, 970, 1030, 1098, 1110}

\* a V the solver may return, with inverter terminal voltage level
VoutAt(level) ==
    << Cx(VSYS, 0), Cx(940, 410), Cx(900, 450), Cx(880, 500), Cx(level, 0) >>

\* VRTLogic without the hysteresis: the flag is cleared anywhere inside the
\* band
VRTLogicNoHysteresis(flag, v) ==
    IF v > 1000 + INV_VRT_BAND \/ v < 1000 - INV_VRT_BAND THEN TRUE
    ELSE IF v > 1000 - INV_VRT_BAND /\ v < 1000 + INV_VRT_BAND THEN FALSE
    ELSE flag

\* the VRT state logic: the new INV_VFREEZE for the filtered voltage v
VRTLogic(flag, v) ==
    IF v > 1000 + INV_VRT_BAND \/ v < 1000 - INV_VRT_BAND THEN TRUE
    ELSE IF /\ v > 1000 - (INV_VRT_BAND - INV_VRT_HYST)
            /\ v < 1000 + (INV_VRT_BAND - INV_VRT_HYST) THEN FALSE
    ELSE flag

\* the simulation after many solved steps at one inverter voltage: the lag
\* filter has settled there and the flag is one the hysteresis allows
SettledAt(level, flag) ==
    LET m == Measured(VoutAt(level))
    IN  [ NewFiveBus EXCEPT
            !.current_time = WindowSteps, !.iteration_count = WindowSteps,
            !.t_vals = [k \in 1..(WindowSteps + 1) |-> k - 1],
            !.vpoi_vals = [k \in 1..(WindowSteps + 1) |-> m.vpoi_vals],
            !.ppoi_vals = [k \in 1..(WindowSteps + 1) |-> m.ppoi_vals],
            !.qpoi_vals = [k \in 1..(WindowSteps + 1) |-> m.qpoi_vals],
            !.vcol_vals = [k \in 1..(WindowSteps + 1) |-> m.vcol_vals],
            !.pcol_vals = [k \in 1..(WindowSteps + 1) |-> m.pcol_vals],
            !.qcol_vals = [k \in 1..(WindowSteps + 1) |-> m.qcol_vals],
            !.vinv_vals = [k \in 1..(WindowSteps + 1) |-> m.vinv_vals],
            !.TV_INV_STORE = level, !.vinv_fdbk = level,
            !.INV_VFREEZE = flag,
            !.past_solution = Some(VoutAt(level)),
            !.result = [flow |-> "returned", solved |-> TRUE,
                        Vout |-> VoutAt(level), error |-> "none"] ]

\* what the power flow of a step may do
FiveOutcomes ==
    [ flow : {"returned"}, solved : BOOLEAN, Vout : {VoutAt(l) : l \in Levels} ]
    \cup [ flow : {"raised"}, solved : {FALSE}, Vout : {<< >>} ]

\* lines 224-254: the clock, t_vals and the lag filter of the inverter
\* voltage feedback
FiveHead(fb) ==
    LET vinv_prev == Last(fb.vinv_vals)
        d == vinv_prev - fb.vinv_fdbk
        store == fb.TV_INV_STORE + Ratio(d, DELT, TV_PLANT)
    IN  [fb EXCEPT !.current_time = @ + 1,
                   !.iteration_count = @ + 1,
                   !.calls = @ + 1,
                   !.t_vals = Append(@, fb.current_time + 1),
                   !.TV_INV_STORE = store,
                   !.vinv_fdbk = store + Ratio(d, DELT, 2 * TV_PLANT)]

\* Measure with the returned V used whether or not the power flow solved
MeasureAlways(fb, o) ==
    LET m == Measured(o.Vout)
    IN  [k \in DOMAIN fb |->
            IF k = "past_solution" THEN Some(o.Vout)
            ELSE IF k \in DOMAIN m THEN Append(fb[k], m[k])
            ELSE fb[k]]

\* lines 373-396: a solved power flow becomes past_solution and is measured;
\* an unsolved one makes every measured series repeat its last value
Measure(fb, o) ==
    LET m == Measured(o.Vout)
    IN  [k \in DOMAIN fb |->
            IF k = "past_solution" THEN (IF o.solved THEN Some(o.Vout) ELSE fb[k])
            ELSE IF k \in DOMAIN m
            THEN Append(fb[k], IF o.solved THEN m[k] ELSE Last(fb[k]))
            ELSE fb[k]]

\* one turn of the window loop: the pop(0) calls from series k on
RECURSIVE PopWindow(_, _)
PopWindow(w, k) ==
    IF k > Len(WindowSeries) \/ w.err # "none" THEN w
    ELSE IF w.st[WindowSeries[k]] = << >> THEN [w EXCEPT !.err = "IndexError"]
    ELSE PopWindow([w EXCEPT !.st[WindowSeries[k]] = Tail(@)], k + 1)

\* while t_vals[0] < current_time - WINDOW_TIME: pop
RECURSIVE RollWindow(_)
RollWindow(w) ==
    IF w.err # "none" THEN w
    ELSE IF w.st.t_vals = << >> THEN [w EXCEPT !.err = "IndexError"]
    ELSE IF ~(w.st.t_vals[1] < w.st.current_time - WindowSteps) THEN w
    ELSE RollWindow(PopWindow(w, 1))

\* simulate_step(voltage_reference) with the power flow doing o
five_bus_step(fb, o) ==
    LET h == FiveHead(fb)
        ended(st, e) == [st EXCEPT !.result = [flow |-> o.flow, solved |-> o.solved,
                                                Vout |-> o.Vout, error |-> e]]
    IN  IF o.flow = "raised" THEN ended(h, "Exception")
        ELSE LET s1 == Measure(h, o)
                 s2 == [s1 EXCEPT !.INV_VFREEZE = VRTLogic(@, s1.vinv_fdbk)]
                 w == RollWindow([st |-> s2, err |-> "none"])
             IN  ended(w.st, w.err)

InitFive ==
    /\ NoCall
    /\ sim_state = None
    /\ \/ five_bus = Some(NewFiveBus)
       \/ \E l \in Levels : \E f \in BOOLEAN :
            /\ VRTLogic(f, l) = f
            /\ five_bus = Some(SettledAt(l, f))

FiveStep ==
    /\ five_bus # None
    /\ Val(five_bus).calls < MaxCalls
    /\ \E o \in FiveOutcomes : five_bus' = Some(five_bus_step(Val(five_bus), o))
    /\ UNCHANGED <<solverVars, past_solution, other, jac, sim_state>>

FiveReset ==
    /\ five_bus # None
    /\ five_bus' = Some(reset_five_bus(Val(five_bus)))
    /\ UNCHANGED <<solverVars, past_solution, other, jac, sim_state>>

NextFive == FiveStep \/ FiveReset

SpecFive == InitFive /\ [][NextFive]_vars

-----------------------------------------------------------------------------
(* Two interleaved calls *)

\* the calls that run interleaved
ParArgs ==
    { BaseArgs,
      [BaseArgs EXCEPT !.Ybus_matrix = ZeroYbus],
      [BaseArgs EXCEPT !.Sgen = << None >>],
      [PVArgs EXCEPT !.Qgen_min = Some(<< None, Some(1) >>),
                     !.Qgen_max = Some(<< None, Some(QLim) >>)] }

\* the frame of a call that has not begun, in the order of solverVars
NewCall(c, a) ==
    <<c, a, a.Sgen, "call", "none", << >>, << >>, << >>, << >>, << >>, << >>,
      << >>, 0, FALSE, 0, "none">>

InitPar ==
    /\ copy \in Copies
    /\ args \in ParArgs
    /\ Accepts(copy, args)
    /\ Sgen = args.Sgen
    /\ pc = "call"
    /\ exc = "none"
    /\ V = << >> /\ Vmag = << >> /\ Vang = << >> /\ S = << >>
    /\ Vregulating = << >> /\ mismatch = << >> /\ del_val = << >>
    /\ iteration = 0
    /\ solved = FALSE
    /\ passes = 0
    /\ exit = "none"
    /\ past_solution = None
    /\ \E c \in Copies : \E a \in ParArgs :
            Accepts(c, a) /\ other = Some(NewCall(c, a))
    /\ jac = None /\ sim_state = None /\ five_bus = None

\* Switch with one Sgen list shared by the two calls
SwitchSharedSgen ==
    /\ other # None
    /\ other' = Some(solverVars)
    /\ copy' = Val(other)[1] /\ args' = Val(other)[2]
    /\ Sgen' = Sgen
    /\ pc' = Val(other)[4] /\ exc' = Val(other)[5]
    /\ V' = Val(other)[6] /\ Vmag' = Val(other)[7] /\ Vang' = Val(other)[8]
    /\ S' = Val(other)[9] /\ Vregulating' = Val(other)[10]
    /\ mismatch' = Val(other)[11] /\ del_val' = Val(other)[12]
    /\ iteration' = Val(other)[13] /\ solved' = Val(other)[14]
    /\ passes' = Val(other)[15] /\ exit' = Val(other)[16]
    /\ UNCHANGED <<past_solution, jac, sim_state, five_bus>>

\* the scheduler suspends the running call and resumes the other one: every
\* name of the solver is a local of the call's frame or of its arguments
Switch ==
    /\ other # None
    /\ other' = Some(solverVars)
    /\ copy' = Val(other)[1] /\ args' = Val(other)[2]
    /\ Sgen' = Val(other)[3]
    /\ pc' = Val(other)[4] /\ exc' = Val(other)[5]
    /\ V' = Val(other)[6] /\ Vmag' = Val(other)[7] /\ Vang' = Val(other)[8]
    /\ S' = Val(other)[9] /\ Vregulating' = Val(other)[10]
    /\ mismatch' = Val(other)[11] /\ del_val' = Val(other)[12]
    /\ iteration' = Val(other)[13] /\ solved' = Val(other)[14]
    /\ passes' = Val(other)[15] /\ exit' = Val(other)[16]
    /\ UNCHANGED <<past_solution, jac, sim_state, five_bus>>

\* the linear solve gives both runs of a call the same answer: it fails
\* exactly on the all-zero Jacobian and otherwise returns the zero correction
FixedSolve ==
    \/ pc' = "raised" /\ exc' # "LinAlgError"
    \/ JacobianZero /\ (exit' = "singular" \/ exc' = "LinAlgError")
    \/ /\ ~JacobianZero
       /\ iteration' = iteration + 1
       /\ \A k \in 1..Len(del_val') : del_val'[k] = 0

IterateFixed == Iterate /\ FixedSolve

NextPar == Validate \/ Setup \/ IterateFixed \/ Finish \/ Switch

SpecPar == InitPar /\ [][NextPar]_vars

-----------------------------------------------------------------------------
(* Properties *)

Left == pc \in {"final", "returned"}
TolOK == del_val # << >> /\ MaxMismatch(del_val) <= TOLERANCE

\* the arguments meet every precondition of the interface, the entries of
\* Sgen left aside
WellFormed(a) ==
    /\ \A i \in 1..Len(a.Ybus_matrix) : Len(a.Ybus_matrix[i]) = Len(a.Ybus_matrix)
    /\ Len(a.Vreg_mag) = Len(a.Ybus_matrix)
    /\ Len(a.Sgen) = Len(a.Ybus_matrix)
    /\ a.Sload # None => Len(Val(a.Sload)) = Len(a.Ybus_matrix)
    /\ \A k \in 1..5 : OptionalParams(a)[k] # None =>
            Len(Val(OptionalParams(a)[k])) = Len(a.Ybus_matrix)
    /\ a.initial_V # None => Len(Val(a.initial_V)) = Len(a.Ybus_matrix)
    /\ a.Vreg_mag[1] # None

\* C1: whenever the correction vector of a pass satisfies the tolerance test,
\* the 200th pass included, the loop is left by the tolerance break with
\* solved = TRUE; the iteration-limit break is taken only when the test is
\* not satisfied and the iteration count is MAX_ITERATIONS.
C1_ToleranceWinsOverLimit ==
    (Left /\ exit # "singular") =>
        /\ TolOK => (solved /\ exit = "tolerance")
        /\ exit = "max_iterations" => (~TolOK /\ iteration = MAX_ITERATIONS)

\* C2: solved is TRUE only if the last correction vector satisfied the
\* tolerance test; in the ported copy a call that ran into the iteration
\* limit or into a failed linear solve returns with solved = FALSE, and no
\* call of the ported copy ends with LinAlgError.
C2_SolvedOnlyByTolerance ==
    /\ solved => TolOK
    /\ (copy = "ported" /\ exit \in {"max_iterations", "singular"}) =>
            (Left /\ ~solved /\ exc = "none")
    /\ (copy = "ported" /\ iteration >= MAX_ITERATIONS) => Left
    /\ copy = "ported" => exc # "LinAlgError"

C2_Witness ==
    /\ copy = "ported" /\ pc = "returned" /\ exit = "max_iterations"
    /\ ~TolOK /\ ~solved /\ iteration = MAX_ITERATIONS

\* C3: a call begins at most MAX_ITERATIONS passes of the loop; a pass begins
\* only while fewer than MAX_ITERATIONS are completed; the loop is left by
\* exactly one of the three breaks (tolerance: solved, iteration limit: not
\* solved after 200 passes, singular: not solved before 200 passes); a call
\* that is not over can always take a step; and once the loop is left or the
\* call has raised, no further pass begins.
C3_AtMost200Passes ==
    /\ [](/\ passes <= MAX_ITERATIONS
          /\ pc = "loop" => (iteration < MAX_ITERATIONS /\ exit = "none")
          /\ Left => /\ exit \in {"tolerance", "max_iterations", "singular"}
                     /\ exit = "tolerance" <=> solved
                     /\ exit = "max_iterations" <=> iteration = MAX_ITERATIONS
                     /\ exit = "singular" => passes = iteration + 1
                     /\ exit # "singular" => passes = iteration
          /\ pc \notin {"returned", "raised"} => ENABLED Next)
    /\ [][/\ pc \in {"final", "returned", "raised"} =>
                (pc' \in {"returned", "raised"} /\ passes' = passes
                 /\ iteration' = iteration /\ exit' = exit /\ solved' = solved)
          /\ passes' \in {passes, passes + 1}]_vars

C3_Witness ==
    pc = "returned" /\ passes = MAX_ITERATIONS /\ iteration = MAX_ITERATIONS

\* C4: in every copy a failed linear solve does not raise: the call returns
\* solved = FALSE with V built from the Vmag and Vang of before the failed
\* pass.
C4_SingularNeverRaises ==
    /\ exc # "LinAlgError"
    /\ (pc = "returned" /\ exit = "singular") =>
            (~solved /\ V = Phasors(V, Vmag, Vang))

\* C5: if Vreg_mag, Sgen, Sload or a supplied optional vector has a length
\* other than N, the call raises ValueError before any pass begins, before V
\* is initialised, and with the caller's Sgen as passed.
LengthMismatch(a) ==
    \/ Len(a.Vreg_mag) # Len(a.Ybus_matrix)
    \/ Len(a.Sgen) # Len(a.Ybus_matrix)
    \/ a.Sload # None /\ Len(Val(a.Sload)) # Len(a.Ybus_matrix)
    \/ \E k \in 1..5 : /\ OptionalParams(a)[k] # None
                       /\ Len(Val(OptionalParams(a)[k])) # Len(a.Ybus_matrix)

C5_LengthMismatchRaises ==
    (LengthMismatch(args) /\ pc # "call") =>
        /\ pc = "raised" /\ exc = "ValueError"
        /\ passes = 0 /\ V = << >>
        /\ Sgen = args.Sgen

C5_Witness ==
    /\ pc = "raised" /\ exc = "ValueError"
    /\ args.Qgen_cap # None /\ Len(Val(args.Qgen_cap)) # Len(args.Ybus_matrix)
    /\ Len(args.Ybus_matrix[1]) = Len(args.Ybus_matrix)
    /\ Len(args.Sgen) = Len(args.Ybus_matrix)

\* C6: if any row of Ybus_matrix has a length other than N, the call begins
\* no pass, does not return, and raises nothing but ValueError.
C6_NonSquareRejected ==
    ((\E i \in 1..Len(args.Ybus_matrix) :
            Len(args.Ybus_matrix[i]) # Len(args.Ybus_matrix)) /\ pc # "call") =>
        (passes = 0 /\ pc # "returned" /\ exc \in {"none", "ValueError"})

\* C7: if initial_V is supplied with a length other than N, the call begins
\* no pass, does not return, and raises nothing but ValueError.
C7_InitialVLengthChecked ==
    (/\ args.initial_V # None
     /\ Len(Val(args.initial_V)) # Len(args.Ybus_matrix)
     /\ pc # "call") =>
        (passes = 0 /\ pc # "returned" /\ exc \in {"none", "ValueError"})

\* C8: if Vreg_mag[0] is None, the call begins no pass, does not return,
\* raises nothing but ValueError, and leaves the caller's Sgen as passed.
C8_SlackTargetRequired ==
    (/\ Len(args.Vreg_mag) >= 1
     /\ args.Vreg_mag[1] = None
     /\ pc # "call") =>
        (/\ passes = 0 /\ pc # "returned" /\ exc \in {"none", "ValueError"}
         /\ Sgen = args.Sgen)

\* C9 as stated: a None entry of Sgen at any bus, slack or not, does not make
\* the call raise.
NoneSgenErrors == {"TypeError", "AttributeError"}

C9_NoneSgenNeverRaises ==
    (WellFormed(args) /\ \E x \in 1..Len(args.Sgen) : args.Sgen[x] = None) =>
        exc \notin NoneSgenErrors

\* C9 as amended: a None entry of Sgen at the slack bus is never read or
\* written, so the call does not raise because of it; a None entry at a
\* non-slack bus makes the first pass raise TypeError or AttributeError,
\* before any correction is applied.
C9_OnlySlackSgenMayBeNone ==
    WellFormed(args) =>
        /\ (\A x \in 2..Len(args.Sgen) : args.Sgen[x] # None) =>
                (exc \notin NoneSgenErrors /\ Sgen[1] = args.Sgen[1])
        /\ ((\E x \in 2..Len(args.Sgen) : args.Sgen[x] = None) /\ passes >= 1) =>
                (/\ pc = "raised" /\ exc \in NoneSgenErrors
                 /\ passes = 1 /\ iteration = 0 /\ del_val = << >>)

C9_Witness ==
    /\ WellFormed(args) /\ args.Sgen[1] = None
    /\ pc = "returned" /\ solved /\ iteration >= 2

\* C10: whatever initial_V is, the slack bus has magnitude Vreg_mag[0] and
\* angle 0 from seeding to the return.
C10_SlackFixed ==
    (pc \in {"loop", "final", "returned"} /\ args.Vreg_mag[1] # None) =>
        /\ Vmag[1] = Val(args.Vreg_mag[1])
        /\ Vang[1] = 0
        /\ V[1] = Cx(Val(args.Vreg_mag[1]), 0)

\* C11: at the end of every completed pass, and so in every result returned
\* after a tolerance or iteration-limit break, every non-slack bus that the
\* classifier of that pass marked regulating has Vmag equal to its setpoint
\* Vreg_mag, and only declared buses are marked regulating.
C11_RegulatingSnapped ==
    (pc \in {"loop", "final", "returned"} /\ iteration >= 1 /\ exit # "singular") =>
        \A x \in NonSlack :
            Vregulating[x] => /\ Vreg_declared(args, x)
                              /\ Vmag[x] = Val(args.Vreg_mag[x])

C11_Witness ==
    /\ copy = "ported" /\ pc = "loop" /\ iteration >= 1
    /\ Vregulating[2] /\ del_val[num_buses] # 0
    /\ Vmag[2] = Val(args.Vreg_mag[2])

\* the static limit tests of bus x in a pass that computed the power s from
\* the magnitudes vm
StaticOnly(x) ==
    /\ Vreg_declared(args, x)
    /\ CapAt(x) = None
    /\ QminAt(x) # None \/ QmaxAt(x) # None
UnderTrips(x, s, vm) ==
    /\ QminAt(x) # None
    /\ \/ Im(s[x]) + Im(Sload[x]) <= Val(QminAt(x))
       \/ vm[x] > Val(args.Vreg_mag[x])
OverTrips(x, s, vm) ==
    /\ QmaxAt(x) # None
    /\ \/ Im(s[x]) + Im(Sload[x]) >= Val(QmaxAt(x))
       \/ vm[x] < Val(args.Vreg_mag[x])
\* a step that is a pass of the loop whose classifier ran to its end
ClassifiedPass == pc = "loop" /\ pc' \in {"loop", "final"}

\* C12 as stated: for a declared non-slack bus with static limits only, a
\* pass whose under-limit test trips leaves Sgen[i].imag = Qgen_min[i], a pass
\* whose over-limit test trips leaves Sgen[i].imag = Qgen_max[i], and in both
\* cases Vregulating[i] is false.
C12_EachStaticLimitPins ==
    [][ClassifiedPass =>
        \A x \in NonSlack : StaticOnly(x) =>
            /\ UnderTrips(x, S', Vmag) =>
                    (Im(Sgen'[x]) = Val(QminAt(x)) /\ ~Vregulating'[x])
            /\ OverTrips(x, S', Vmag) =>
                    (Im(Sgen'[x]) = Val(QmaxAt(x)) /\ ~Vregulating'[x])]_vars

\* C12 as amended: the over-limit test is applied last, so a pass whose
\* over-limit test trips leaves Sgen[i].imag = Qgen_max[i] whether or not the
\* under-limit test tripped too; a pass in which only the under-limit test
\* trips leaves Sgen[i].imag = Qgen_min[i]; in both cases Vregulating[i] is
\* false and Sgen[i].real is kept; a pass in which neither trips leaves
\* Sgen[i] as it was and marks the bus regulating; and the end of the call
\* writes nothing to Sgen.
C12_StaticLimitPins ==
    /\ [][ClassifiedPass =>
            \A x \in NonSlack : StaticOnly(x) =>
                /\ Re(Sgen'[x]) = Re(Sgen[x])
                /\ OverTrips(x, S', Vmag) =>
                        (Im(Sgen'[x]) = Val(QmaxAt(x)) /\ ~Vregulating'[x])
                /\ (UnderTrips(x, S', Vmag) /\ ~OverTrips(x, S', Vmag)) =>
                        (Im(Sgen'[x]) = Val(QminAt(x)) /\ ~Vregulating'[x])
                /\ (~UnderTrips(x, S', Vmag) /\ ~OverTrips(x, S', Vmag)) =>
                        (Sgen'[x] = Sgen[x] /\ Vregulating'[x])]_vars
    /\ [][pc = "final" => Sgen' = Sgen]_vars

C12_Witness ==
    /\ pc = "returned" /\ solved
    /\ StaticOnly(2) /\ ~Vregulating[2]
    /\ Sgen[2] # args.Sgen[2]
    /\ Im(Sgen[2]) = Val(QminAt(2))

\* the tests of the dynamic limits of bus x, as the static ones, on the pair
\* the callback returns
HasCap(x) ==
    /\ Vreg_declared(args, x)
    /\ CapAt(x) # None
    /\ Val(CapAt(x)).kind = "const"
DynUnderTrips(x, s, vm) ==
    \/ Im(s[x]) + Im(Sload[x]) <= Val(CapAt(x)).qmin
    \/ vm[x] > Val(args.Vreg_mag[x])
DynOverTrips(x, s, vm) ==
    \/ Im(s[x]) + Im(Sload[x]) >= Val(CapAt(x)).qmax
    \/ vm[x] < Val(args.Vreg_mag[x])

\* C13: when the static and the dynamic minimum of a bus trip in the same
\* classification, Sgen[i].imag is left at max(Qgen_min[i], Qmin), and when
\* the static and the dynamic maximum trip, at min(Qgen_max[i], Qmax),
\* whichever other tests trip in that pass.
C13_MoreRestrictiveWins ==
    [][ClassifiedPass =>
        \A x \in NonSlack : HasCap(x) =>
            /\ (UnderTrips(x, S', Vmag) /\ DynUnderTrips(x, S', Vmag)) =>
                    Im(Sgen'[x]) = MaxInt(Val(QminAt(x)), Val(CapAt(x)).qmin)
            /\ (OverTrips(x, S', Vmag) /\ DynOverTrips(x, S', Vmag)) =>
                    Im(Sgen'[x]) = MinInt(Val(QmaxAt(x)), Val(CapAt(x)).qmax)]_vars

RaisingCap(x) ==
    /\ Vreg_declared(args, x)
    /\ CapAt(x) # None
    /\ Val(CapAt(x)).kind = "raises"

C15_CallbackErrorSkipped ==
    [][(/\ pc = "loop"
        /\ WellFormed(args)
        /\ \A x \in NonSlack : Sgen[x] # None
        /\ \E x \in NonSlack : RaisingCap(x)) =>
            /\ exc' \in {"none", "LinAlgError"}
            /\ pc' = "raised" => exc' = "LinAlgError"
            /\ \A x \in NonSlack : RaisingCap(x) =>
                /\ Sgen'[x] =
                        IF OverTrips(x, S', Vmag)
                        THEN Cx(Re(Sgen[x]), Val(QmaxAt(x)))
                        ELSE IF UnderTrips(x, S', Vmag)
                        THEN Cx(Re(Sgen[x]), Val(QminAt(x)))
                        ELSE Sgen[x]
                /\ Vregulating'[x] =
                        (~UnderTrips(x, S', Vmag) /\ ~OverTrips(x, S', Vmag))]_vars

C15_Witness ==
    /\ pc = "returned" /\ solved /\ passes >= 2
    /\ RaisingCap(2) /\ QminAt(2) # None
    /\ Im(Sgen[2]) = Val(QmaxAt(2))

\* C16: the S a call returns is V * conj(Ybus * V) of the V it returns.
C16_ReturnedSFromReturnedV ==
    pc = "returned" => S = Power(V)

\* the state in which the loop is entered for the first time
Seeded == pc = "loop" /\ passes = 0

\* C17 as stated: without initial_V, every non-slack bus without a target
\* starts at magnitude 1.0 and angle 0 and every bus with a target at
\* magnitude Vreg_mag[i] and angle 0, whatever Vreg_mag[0] is.
C17_FlatStartAtOne ==
    (Seeded /\ args.initial_V = None) =>
        \A x \in Buses :
            /\ Vang[x] = 0
            /\ Vmag[x] = IF Vreg_declared(args, x) THEN Val(args.Vreg_mag[x]) ELSE Unit

\* C17 as amended: without initial_V, every bus with a target starts at
\* magnitude Vreg_mag[i] and angle 0, and every bus without a target starts
\* at the slack magnitude Vreg_mag[0] and angle 0.
C17_FlatStartAtSlackMagnitude ==
    (Seeded /\ args.initial_V = None) =>
        \A x \in Buses :
            /\ Vang[x] = 0
            /\ Vmag[x] = IF Vreg_declared(args, x) THEN Val(args.Vreg_mag[x])
                         ELSE Val(args.Vreg_mag[1])
            /\ V[x] = Cx(Vmag[x], 0)

C17_Witness ==
    /\ Seeded /\ args.initial_V = None
    /\ Val(args.Vreg_mag[1]) # Unit
    /\ ~Vreg_declared(args, 2)
    /\ Vmag[2] = Val(args.Vreg_mag[1])

\* C18: a call warm-started with the V of a converged call starts from the
\* Vmag and Vang that call converged to, at every bus.
C18_WarmStartFromConverged ==
    (Seeded /\ past_solution # None) =>
        \A x \in Buses :
            /\ Vmag[x] = Val(past_solution).Vmag[x]
            /\ Vang[x] = Val(past_solution).Vang[x]

\* C19: the ported and the original copy behave alike: from the same state
\* and the same result of the linear solve, a pass of either copy classifies
\* the buses alike (same Sgen, Vregulating, mismatch and exception), handles
\* a failed linear solve alike, takes the same exit from the loop, and the
\* end of the call returns the same S.
C19_PortedEquivalentToOriginal ==
    [][(copy = "ported" \/ copy = "original") =>
        /\ (pc = "loop" /\ ~MatmulError(args)) =>
                /\ ClassifyAndMismatch("ported", S', Vmag, Sgen, mismatch)
                        = ClassifyAndMismatch("original", S', Vmag, Sgen, mismatch)
                /\ (exit' = "singular" \/ exc' = "LinAlgError") =>
                        OnSingular("ported") = OnSingular("original")
                /\ iteration' = iteration + 1 =>
                        LoopExit("ported", iteration', del_val')
                            = LoopExit("original", iteration', del_val')
        /\ pc = "final" =>
                FinalS("ported", V', S) = FinalS("original", V', S)]_vars

\* C20: a call writes none of its arguments but Sgen, and in Sgen only the
\* imaginary part of entries of non-slack buses that are declared regulated
\* and have a static or dynamic reactive limit: every other entry, and the
\* real part of every entry, is as the caller passed it.
HasLimit(x) == QminAt(x) # None \/ QmaxAt(x) # None \/ CapAt(x) # None

C20_OnlyLimitedSgenWritten ==
    /\ [](/\ Len(Sgen) = Len(args.Sgen)
          /\ \A x \in 1..Len(Sgen) :
                Sgen[x] # args.Sgen[x] =>
                    /\ x \in NonSlack
                    /\ Vreg_declared(args, x)
                    /\ HasLimit(x)
                    /\ Re(Sgen[x]) = Re(args.Sgen[x]))
    /\ [][args' = args]_vars

C20_Witness ==
    /\ pc = "returned"
    /\ Sgen[2] # args.Sgen[2]
    /\ Re(Sgen[2]) = Re(args.Sgen[2])
    /\ Sgen[1] = args.Sgen[1]

\* the call of the running frame when it runs alone, with the linear solve
\* of FixedSolve: the exception it ends with, and the V, S, solved and Sgen
\* it returns
AloneSeed == [x \in Buses |-> SeedV(args, x)]
AloneVmag == [x \in Buses |-> CAbs(AloneSeed[x])]
AloneVang == [x \in Buses |-> CAngle(AloneSeed[x])]
AloneV1 == Phasors(AloneSeed, AloneVmag, AloneVang)
AlonePass ==
    ClassifyAndMismatch(copy, Power(AloneV1), AloneVmag, args.Sgen,
                        [k \in 1..(2 * (num_buses - 1)) |-> 0])
AloneExc ==
    IF ShapeError(copy, args, args.Sgen) THEN "ValueError"
    ELSE IF YbusIndexError(args) THEN "IndexError"
    ELSE IF SeedError(args) # "none" THEN SeedError(args)
    ELSE IF AlonePass.err # "none" THEN AlonePass.err
    ELSE IF JacobianZero /\ OnSingular(copy) = "raise" THEN "LinAlgError"
    ELSE "none"
AloneSolved == ~JacobianZero
AloneFinalVmag ==
    [x \in Buses |->
        IF x = 1 \/ JacobianZero THEN AloneVmag[x]
        ELSE NewVmag(copy, x, AloneVmag, AlonePass.Vregulating, 0)]
AloneFinalV == Phasors(AloneV1, AloneFinalVmag, AloneVang)
AloneFinalS == FinalS(copy, AloneFinalV, Power(AloneV1))

C24_NoCrossing ==
    [][(pc = "loop" /\ pc' = "corrected") =>
        \A x \in NonSlack :
            LET d == del_val'[x - 1 + (num_buses - 1)]
            IN  IF ~Vreg_declared(args, x)
                THEN Vmag'[x] = Vmag[x] + d
                ELSE ~Vregulating[x] =>
                    LET vreg == Val(args.Vreg_mag[x])
                    IN  /\ Vmag[x] > vreg => Vmag'[x] >= vreg
                        /\ Vmag[x] < vreg => Vmag'[x] <= vreg
                        /\ Vmag'[x] = vreg \/ Vmag'[x] = Vmag[x] + d
                        /\ (Vmag[x] > vreg /\ Vmag[x] + d < vreg) => Vmag'[x] = vreg
                        /\ (Vmag[x] < vreg /\ Vmag[x] + d > vreg) => Vmag'[x] = vreg]_vars

\* a correction that would have carried a non-regulating declared bus
\* across its setpoint has left it at the setpoint
C24_Witness ==
    /\ pc = "corrected"
    /\ copy # "condensed"
    /\ Vreg_declared(args, 2) /\ ~Vregulating[2]
    /\ Vmag[2] = Val(args.Vreg_mag[2])
    /\ del_val[num_buses] = -MaxStep

\* C27: with initial_V supplied, a bus without a regulation target is seeded
\* with exactly initial_V[i], and a bus with a target is seeded with the
\* magnitude Vreg_mag[i] and the angle of initial_V[i], whatever the
\* imaginary part of initial_V[i].
C27_DeclaredSeedTakesAngle ==
    (Seeded /\ args.initial_V # None) =>
        \A x \in Buses :
            LET v0 == Val(args.initial_V)[x]
            IN  IF ~Vreg_declared(args, x)
                THEN V[x] = v0 /\ Vmag[x] = CAbs(v0) /\ Vang[x] = CAngle(v0)
                ELSE Vmag[x] = Val(args.Vreg_mag[x]) /\ Vang[x] = CAngle(v0)

\* calculate_Jacobian has returned
JacobianDone == jac # None /\ Val(jac).err = "none" /\ Val(jac).i > num_buses

\* the sum of the terms of bus i over the buses of the set ks
RECURSIVE SumOverSet(_, _, _)
SumOverSet(i, ks, f) ==
    IF ks = {} THEN 0
    ELSE LET k == CHOOSE k \in ks : TRUE
         IN  Term(i, k, f) + SumOverSet(i, ks \ {k}, f)

\* C25: on the diagonal, the entries of the two angle-derivative blocks sum
\* the terms over every bus k except k = i, and the entries of the two
\* magnitude-derivative blocks sum them over every bus, k = i and the slack
\* bus included, on top of their own |V_i||Y_ii| term.
C25_DiagonalSums ==
    JacobianDone =>
        \A x \in NonSlack :
            LET J == Val(jac).jacobian
                a == AngleIndex(x)
                g == x - 1 + (num_buses - 1)
            IN  /\ J[a][a] = FMul(SumOverSet(x, Buses \ {x}, "sin"), -Vmag[x])
                /\ J[g][a] = FMul(SumOverSet(x, Buses \ {x}, "cos"), Vmag[x])
                /\ J[a][g] = FMul(FMul(Vmag[x], Ybus_mag(x, x)), Cos(Ybus_ang(x, x)))
                             + SumOverSet(x, Buses, "cos")
                /\ J[g][g] = FMul(FMul(-Vmag[x], Ybus_mag(x, x)), Sin(Ybus_ang(x, x)))
                             + SumOverSet(x, Buses, "sin")

\* a finished Jacobian of a network in which the k = i term and the slack
\* term of a magnitude-block diagonal entry are both not zero
C25_Witness ==
    /\ JacobianDone
    /\ num_buses = MaxBuses
    /\ Term(2, 2, "sin") # 0 /\ Term(2, 1, "sin") # 0
    /\ Term(2, 2, "cos") # 0 /\ Term(2, 1, "cos") # 0
    /\ Val(jac).jacobian[2 - 1 + (num_buses - 1)][2 - 1 + (num_buses - 1)]
            # FMul(FMul(-Vmag[2], Ybus_mag(2, 2)), Sin(Ybus_ang(2, 2)))
              + SumOverSet(2, Buses \ {2}, "sin")

\* C26: calculate_Jacobian never indexes outside the 2(N-1) x 2(N-1)
\* matrix, has written no cell twice at any point, and has written every
\* cell once when it returns: the bus pair (i, j) (Python numbering) is
\* written at rows i-1 and i-1+(N-1) and columns j-1 and j-1+(N-1), the
\* positions of the mismatch entries of bus i and of the corrections of
\* bus j.
C26_EachCellOnce ==
    jac # None =>
        LET st == Val(jac)
            n == num_buses - 1
            Done(x, y) == x < st.i \/ (x = st.i /\ y < st.j)
        IN  /\ st.err = "none"
            /\ DOMAIN st.jacobian = 1..(2 * n)
            /\ \A r \in 1..(2 * n) : DOMAIN st.jacobian[r] = 1..(2 * n)
            /\ \A x \in NonSlack : \A y \in NonSlack :
                \A r \in {x - 1, x - 1 + n} : \A c \in {y - 1, y - 1 + n} :
                    st.writes[r][c] = IF Done(x, y) THEN 1 ELSE 0
            /\ JacobianDone =>
                \A r \in 1..(2 * n) : \A c \in 1..(2 * n) : st.writes[r][c] = 1

\* the Jacobian of the largest network has been returned
C26_Witness ==
    /\ JacobianDone
    /\ num_buses = MaxBuses
    /\ Val(jac).writes[2 * (num_buses - 1)][2 * (num_buses - 1)] = 1
    /\ Val(jac).writes[1][num_buses] = 1

\* a step of the two-bus simulation that is a simulate_step
IsSimulateStep ==
    /\ sim_state # None /\ sim_state' # None
    /\ Val(sim_state').calls = Val(sim_state).calls + 1

\* C22: in every simulate_step whose power flow returned solved = false,
\* the voltage appended to the series, which the controller of the next
\* tick reads, is the previous last value of the series and not the
\* magnitude of the returned V.
C22_UnsolvedVoltageNotUsed ==
    [][(/\ IsSimulateStep
        /\ Val(sim_state').result.flow = "returned"
        /\ ~Val(sim_state').result.solved
        /\ Val(sim_state').result.error = "none") =>
            Last(Val(sim_state').voltage_vals) = Last(Val(sim_state).voltage_vals)]_vars

\* C28: after any sequence of simulate_step, update_parameters and
\* reset_simulation, the steps ended by an exception included, the five
\* series have the same length, and after each completed simulate_step that
\* length is at most max_data_points.
C28_SeriesInStep ==
    sim_state # None =>
        LET st == Val(sim_state)
        IN  /\ \A k \in 1..Len(TheSeries) :
                    Len(st[TheSeries[k]]) = Len(st.time_vals)
            /\ (st.result.flow # "none" /\ st.result.error = "none") =>
                    Len(st.time_vals) <= st.max_data_points

\* a step of the five-bus simulation that is a simulate_step, one whose
\* power flow returned, and one that is a reset_simulation
IsFiveStep ==
    /\ five_bus # None /\ five_bus' # None
    /\ Val(five_bus').calls = Val(five_bus).calls + 1
FlowReturned == IsFiveStep /\ Val(five_bus').result.flow = "returned"
IsFiveReset ==
    /\ five_bus # None /\ five_bus' # None
    /\ Val(five_bus').calls = Val(five_bus).calls
    /\ five_bus' # five_bus

\* series s2 is series s1 with x appended and some samples popped in front
AppendedTo(s2, s1, x) ==
    \E k \in 0..Len(s1) : s2 = SubSeq(Append(s1, x), k + 1, Len(s1) + 1)

\* C29: past_solution is None after a reset, becomes the returned V in a
\* step whose power flow solved, and is left alone by every other step; in
\* a step whose power flow did not solve, every measured series is appended
\* its previous last value.
C29_PastSolutionIsLastSolved ==
    /\ [][IsFiveReset => Val(five_bus').past_solution = None]_vars
    /\ [][IsFiveStep =>
            Val(five_bus').past_solution =
                IF FlowReturned /\ Val(five_bus').result.solved
                THEN Some(Val(five_bus').result.Vout)
                ELSE Val(five_bus).past_solution]_vars
    /\ [][(FlowReturned /\ ~Val(five_bus').result.solved) =>
            \A k \in 1..Len(MeasuredSeries) :
                LET s == MeasuredSeries[k]
                IN  AppendedTo(Val(five_bus')[s], Val(five_bus)[s],
                               Last(Val(five_bus)[s]))]_vars

\* an unsolved power flow whose V differs from the stored solution has left
\* the stored solution and the last inverter voltage as they were
C29_Witness ==
    /\ five_bus # None
    /\ Val(five_bus).calls >= 2
    /\ Val(five_bus).result.flow = "returned" /\ ~Val(five_bus).result.solved
    /\ Val(five_bus).past_solution # None
    /\ Val(Val(five_bus).past_solution) # Val(five_bus).result.Vout
    /\ Last(Val(five_bus).vinv_vals) = Magnitude(Val(Val(five_bus).past_solution)[5])
    /\ Last(Val(five_bus).vinv_vals) # Magnitude(Val(five_bus).result.Vout[5])

\* the filtered inverter voltage lies in one of the two hysteresis gaps
InGap(v) ==
    \/ 1000 - INV_VRT_BAND <= v /\ v <= 1000 - (INV_VRT_BAND - INV_VRT_HYST)
    \/ 1000 + (INV_VRT_BAND - INV_VRT_HYST) <= v /\ v <= 1000 + INV_VRT_BAND

\* C30: a simulate_step whose power flow returned sets INV_VFREEZE when the
\* filtered inverter voltage is above 1 + INV_VRT_BAND or below
\* 1 - INV_VRT_BAND, clears it when (and only when) that voltage is strictly
\* inside (1 - (BAND - HYST), 1 + (BAND - HYST)), and leaves it as it was in
\* the two gaps between; reset_simulation clears it.
C30_VFreezeHysteresis ==
    /\ [][FlowReturned =>
            LET v == Val(five_bus').vinv_fdbk
                was == Val(five_bus).INV_VFREEZE
                now == Val(five_bus').INV_VFREEZE
            IN  /\ (v > 1000 + INV_VRT_BAND \/ v < 1000 - INV_VRT_BAND) => now
                /\ (/\ v > 1000 - (INV_VRT_BAND - INV_VRT_HYST)
                    /\ v < 1000 + (INV_VRT_BAND - INV_VRT_HYST)) => ~now
                /\ (was /\ ~now) =>
                        /\ v > 1000 - (INV_VRT_BAND - INV_VRT_HYST)
                        /\ v < 1000 + (INV_VRT_BAND - INV_VRT_HYST)
                /\ InGap(v) => now = was]_vars
    /\ [][IsFiveReset => ~Val(five_bus').INV_VFREEZE]_vars

\* a step has moved the filtered voltage into a gap and the flag is still
\* set
C30_Witness ==
    /\ five_bus # None
    /\ Val(five_bus).calls >= 2
    /\ Val(five_bus).result.flow = "returned"
    /\ Val(five_bus).vinv_fdbk # Val(five_bus).TV_INV_STORE
    /\ InGap(Val(five_bus).vinv_fdbk)
    /\ Val(five_bus).INV_VFREEZE

====
